---- MODULE Spec2Model ----
(***************************************************************************)
(* Model of the Xi-LUA AutoHeal core (src/xi-lua/core/autoheal):           *)
(* MerkleChainLogger, EphemeralKeyManager, KillSwitch and the LuaAutoHeal  *)
(* facade; the Stabilizer-Recal controller (core/stabilizer) and the       *)
(* Omega gate (core/omniverse); the UnifiedMonitor (unified_monitor.py)    *)
(* with its worker thread, and the key rotation thread, as timed loops.    *)
(*                                                                         *)
(* SHA3-256 over log entries is modelled as a collision-free hash: digests *)
(* lists the strings hashed so far, and the digest of a string is its      *)
(* position in that list (a string not hashed before gets the next         *)
(* position).  Time is an integer number of seconds.  A chain entry's      *)
(* timestamp is the clock value at the call (isoformat is injective on     *)
(* instants).                                                              *)
(*                                                                         *)
(* Numbers the program keeps as floats are exact here: psi and CVaR        *)
(* samples are integers in thousandths, the price multiplier and the Omega *)
(* components are fractions [n, d].  Where rounding decides a comparison   *)
(* (Omega exactly on the gate threshold) both outcomes are taken.          *)
(***************************************************************************)
EXTENDS Integers, Sequences, FiniteSets, TLC

VARIABLES
    now,            \* wall clock, seconds (time.time / datetime.utcnow)
    chain,          \* MerkleChainLogger.chain, one per logger object
    current_root,   \* MerkleChainLogger.current_root, one per logger object
    disk,           \* contents of the log files, a sequence of JSON lines per file
    digests,        \* the strings SHA3-256 has been applied to; a digest is a position here
    armed,          \* KillSwitch.armed
    events,         \* KillSwitch.events
    rotation_count, \* EphemeralKeyManager.rotation_count
    key_created_at, \* EphemeralKeyManager.key_created_at
    current_key,    \* EphemeralKeyManager.current_key (identity of the derived key)
    current_aesgcm, \* EphemeralKeyManager.current_aesgcm (the key its cipher object holds)
    rot,            \* per rotating thread: position inside _rotate_key and its locals
    next_rotation,  \* when the sleep of _rotation_loop ends
    written_by,     \* which rotation wrote key_created_at and rotation_count last
    ciphertexts,    \* ciphertexts handed out to callers so far
    signatures,     \* (data, signature, nonce) triples handed out to callers so far
    result,         \* what the last completed call gave back to its caller
    tampered,       \* TRUE once a stored entry of the stand-alone logger was overwritten
    pc,             \* per producer thread: position inside MerkleChainLogger.append
    local,          \* per producer thread: the locals of append (entry, new_root)
    state,          \* StabilizerRecal.state (a SystemState)
    cvar_history,   \* StabilizerRecal.cvar_history
    pushed,         \* history of update_cvar calls: times of the last 10, time of the last not below CVaR_lo
    stab,           \* the caller inside _recalibrate or _relax: its position and its locals
    action_history,     \* OmegaGate.action_history
    error_timestamps,   \* OmegaGate.error_timestamps
    validation_results, \* OmegaGate.validation_results
    idempotent_count,   \* OmegaGate.idempotent_count
    total_webhooks,     \* OmegaGate.total_webhooks
    calls,              \* number of record_action and of record_validation calls made on the gate
    running,            \* UnifiedMonitor.running
    monitor_thread,     \* UnifiedMonitor.monitor_thread: the worker created last, 0 for None
    worker,             \* the monitor workers created so far: alive or not, end of their sleep
    total_events,       \* UnifiedMonitor.total_events
    security_events,    \* UnifiedMonitor.security_events
    recalibrations,     \* UnifiedMonitor.recalibrations
    health_checks,      \* number of _check_system_health calls made so far
    found_killed,       \* TRUE once a health check found AutoHeal not ACTIVE
    stop_requested      \* TRUE from a stop() that cleared running until the next start()

vars == <<now, chain, current_root, disk, digests, armed, events, rotation_count,
          key_created_at, current_key, ciphertexts, signatures, result, tampered, pc, local,
          state, cvar_history, pushed, stab, action_history, error_timestamps,
          validation_results, idempotent_count, total_webhooks, calls, current_aesgcm, rot,
          next_rotation, written_by, running, monitor_thread, worker, total_events, security_events,
          recalibrations, health_checks, found_killed, stop_requested>>

stabilizer_unchanged == UNCHANGED <<state, cvar_history, pushed, stab>>
gate_unchanged == UNCHANGED <<action_history, error_timestamps, validation_results,
                              idempotent_count, total_webhooks, calls>>
cipher_unchanged == UNCHANGED current_aesgcm
loop_unchanged == UNCHANGED <<rot, next_rotation>>
rotation_unchanged == loop_unchanged /\ UNCHANGED written_by
monitor_unchanged == UNCHANGED <<running, monitor_thread, worker, total_events,
                                 security_events, recalibrations, health_checks,
                                 found_killed, stop_requested>>

(***************************************************************************)
(* Bounds of the model                                                     *)
(***************************************************************************)
MaxTime == 90       \* the clock stops advancing here
MaxChain == 3       \* appends made on the stand-alone logger
MaxReports == 5     \* reports made to the kill-switch
MaxSigned == 1      \* sign_data calls made on the facade
MaxHistory == 10    \* samples in the stabilizer's buffer before an update
MaxRisky == 4       \* samples not below CVaR_lo among them
MaxStabTime == 18   \* the stabilizer's callers stop here
MaxCalmTime == 31   \* the slow caller stops here
MaxActions == 2     \* record_action calls made one by one
MaxErrors == 2      \* errors held by the gate
MaxValidations == 1 \* validation results held by the gate
MaxWebhooks == 2    \* webhooks recorded
MaxGateTime == 301  \* the gate's callers stop here
MaxKeyTime == 460
MaxRotations == 3
MaxWorkers == 2
MaxChecks == 4
MaxEvents == 3
MaxFeeds == 2
MaxLifeTime == 320
MaxHealthTime == 70
MaxBurst == 4        \* calls a caller of the gate makes in one burst
MaxLost == 1         \* appends whose write to the log file fails

(***************************************************************************)
(* Program constants                                                       *)
(***************************************************************************)
threshold == 3             \* KillSwitch(threshold=3, ...)
window == 60               \* KillSwitch(..., window=60)
rotation_interval == 300   \* EphemeralKeyManager(rotation_interval=300)
GCM_NONCE == 12            \* secrets.token_bytes(12), encrypted_data[:12]
monitor_interval == 5      \* UnifiedMonitor(monitor_interval=5)
join_timeout == 2          \* stop: self.monitor_thread.join(timeout=2)
CVAR_HIGH == 150           \* _check_system_health: stabilizer_state.cvar > 0.15

\* The logger objects of one process: the key manager's, the kill-switch's and
\* the facade's (all three on the default path), and a stand-alone logger on a
\* file of its own (MerkleChainLogger(log_file=...)).
Loggers == {"km", "ks", "ah", "log"}
log_file == [km |-> "autoheal.log", ks |-> "autoheal.log", ah |-> "autoheal.log",
             log |-> "tmp.log"]
Files == {"autoheal.log", "tmp.log"}

Genesis == 0                \* "0" * 64, the digest of no string
Forged == Genesis - 1              \* a 64-hex string that is the digest of no string hashed

(***************************************************************************)
(* MerkleChainLogger                                                       *)
(***************************************************************************)

\* hashlib.sha3_256(text).hexdigest() given the strings D hashed so far:
\* equal strings have equal digests and different strings different ones
digest_of(D, text) ==
    IF \E i \in 1..Len(D) : D[i] = text
    THEN CHOOSE i \in 1..Len(D) : D[i] = text
    ELSE Len(D) + 1

remember(D, text) == IF \E i \in 1..Len(D) : D[i] = text THEN D ELSE Append(D, text)

\* _compute_hash(data, prev_root): the digest of f"{data}|{prev_root}"
compute_hash(D, data, prev_root) == digest_of(D, <<data, prev_root>>)

\* json_dumps_sorted with the bug of leaving the metadata out of the hashed text
json_dumps_sorted_no_metadata(e) ==
    << <<"event", e.event>>, <<"prev_root", e.prev_root>>, <<"timestamp", e.timestamp>> >>

\* json.dumps(entry, sort_keys=True) of an entry without its merkle_root: the
\* key/value pairs in the lexicographic order of the keys.  A metadata map has
\* string keys and is its own canonical form (a record has no key order).
json_dumps_sorted(e) ==
    << <<"event", e.event>>, <<"metadata", e.metadata>>,
       <<"prev_root", e.prev_root>>, <<"timestamp", e.timestamp>> >>

\* json.dumps(entry): one line of the log file, keys in insertion order
json_dumps(e) ==
    << <<"timestamp", e.timestamp>>, <<"event", e.event>>, <<"metadata", e.metadata>>,
       <<"prev_root", e.prev_root>>, <<"merkle_root", e.merkle_root>> >>

\* json.loads(line)
json_loads(line) ==
    [timestamp |-> line[1][2], event |-> line[2][2], metadata |-> line[3][2],
     prev_root |-> line[4][2], merkle_root |-> line[5][2]]

\* The three mutable parts an append touches, as one value, so that a handler
\* making several appends can be composed.
LogState == [chain |-> chain, current_root |-> current_root, disk |-> disk,
             digests |-> digests]

\* new_entry with the bug of linking every entry to the genesis root
new_entry_genesis_prev(S, l, t, event, metadata) ==
    [timestamp |-> t, event |-> event, metadata |-> metadata, prev_root |-> Genesis]

\* append, lines 69-75: the entry under construction, with prev_root read
\* from the logger
new_entry(S, l, t, event, metadata) ==
    [timestamp |-> t, event |-> event, metadata |-> metadata,
     prev_root |-> S.current_root[l]]

\* hash_args with the bug of hashing against the genesis root
hash_args_genesis(S, l, entry) == <<json_dumps_sorted(entry), Genesis>>

\* append, lines 78-79: what _compute_hash is called with, the serialized
\* entry and the logger's current_root, read again
hash_args(S, l, entry) == <<json_dumps_sorted(entry), S.current_root[l]>>

\* append, line 79
new_root_of(S, l, entry) ==
    compute_hash(S.digests, hash_args(S, l, entry)[1], hash_args(S, l, entry)[2])

hashed(S, l, entry) == [S EXCEPT !.digests = remember(@, hash_args(S, l, entry))]

with_root(entry, root) ==
    [timestamp |-> entry.timestamp, event |-> entry.event, metadata |-> entry.metadata,
     prev_root |-> entry.prev_root, merkle_root |-> root]

\* append, line 83
set_root(S, l, root) == [S EXCEPT !.current_root[l] = root]

\* append, line 86
push_entry(S, l, entry) == [S EXCEPT !.chain[l] = Append(@, entry)]

\* append, lines 89-90; when the write fails the file is left as it was and
\* the error reaches the caller
write_line(S, l, entry, write_ok) ==
    IF write_ok THEN [S EXCEPT !.disk[log_file[l]] = Append(@, json_dumps(entry))]
    ELSE S

\* MerkleChainLogger.append run by one thread without interruption
append(S, l, t, event, metadata, write_ok) ==
    LET entry == new_entry(S, l, t, event, metadata)
        root  == new_root_of(S, l, entry)
        full  == with_root(entry, root)
    IN  write_line(push_entry(set_root(hashed(S, l, entry), l, root), l, full),
                   l, full, write_ok)

\* MerkleChainLogger.verify_integrity: the loop over the chain, from entry i
\* with the running current_root
RECURSIVE verify_from(_, _, _, _)
verify_from(D, c, i, root) ==
    IF i > Len(c) THEN TRUE
    ELSE LET expected_root == compute_hash(D, json_dumps_sorted(c[i]), root)
         IN  IF expected_root # c[i].merkle_root THEN FALSE
             ELSE verify_from(D, c, i + 1, c[i].merkle_root)

verify_integrity(D, c) == IF c = <<>> THEN TRUE ELSE verify_from(D, c, 1, Genesis)

\* MerkleChainLogger.__init__ / _load_chain on the given file contents
load_chain(lines) == [i \in 1..Len(lines) |-> json_loads(lines[i])]

\* a load that leaves current_root at the genesis root
loaded_root_stays_genesis(lines) == Genesis

loaded_root(lines) ==
    IF lines # <<>> THEN json_loads(lines[Len(lines)]).merkle_root ELSE Genesis

(***************************************************************************)
(* EphemeralKeyManager                                                     *)
(***************************************************************************)

KeyState == [current_key |-> current_key, current_aesgcm |-> current_aesgcm,
             key_created_at |-> key_created_at, rotation_count |-> rotation_count]

\* a derivation that leaves the salt out
derive_ephemeral_key_master_only(salt) == <<"sha3", "master_key", <<"salt", 0>>>>

\* _derive_ephemeral_key: sha3_256(master_key + salt)
derive_ephemeral_key(salt) == <<"sha3", "master_key", salt>>

\* _rotate_key at time t.  The salt is 32 fresh random bytes: every rotation
\* draws a salt no earlier rotation drew, named here by the rotation's number.
\* Gives the new key fields and the logger state after the rotation's append.
rotate_key(K, S, t) ==
    LET n       == K.rotation_count + 1
        salt    == <<"salt", n>>
        new_key == derive_ephemeral_key(salt)
    IN  [K |-> [current_key |-> new_key, current_aesgcm |-> new_key,
                key_created_at |-> t, rotation_count |-> n],
         S |-> append(S, "km", t, "Key rotation #" \o ToString(n),
                      [rotation_count |-> n,
                       key_hash_sha3 |-> <<"sha3", new_key>>,
                       salt_hash |-> <<"sha3", salt>>,
                       valid_until |-> t + rotation_interval], TRUE)]

\* get_key: a key older than rotation_interval forces a rotation
get_key(K, S, t) ==
    IF t - K.key_created_at > rotation_interval THEN rotate_key(K, S, t)
    ELSE [K |-> K, S |-> S]

\* Bytes are sequences.  a[lo:hi] of Python: the positions lo+1..hi that exist
slice(a, lo, hi) == SubSeq(a, lo + 1, IF hi < Len(a) THEN hi ELSE Len(a))

\* secrets.token_bytes(n): n random bytes, named by the draw that made them
token_bytes(n, draw) == [i \in 1..n |-> draw]

\* AESGCM(key).encrypt(nonce, data, None): the sealed data and its tag
aes_encrypt(key, nonce, data) == <<[key |-> key, nonce |-> nonce, data |-> data]>>

\* AESGCM(key).decrypt(nonce, ciphertext, None): the data, or InvalidTag when
\* the ciphertext was not sealed with this key and this nonce
aes_decrypt(key, nonce, ciphertext) ==
    IF Len(ciphertext) = 1 /\ ciphertext[1].key = key /\ ciphertext[1].nonce = nonce
    THEN [out |-> "ok", value |-> ciphertext[1].data]
    ELSE [out |-> "InvalidTag", value |-> ""]

\* EphemeralKeyManager.encrypt(data): nonce + ciphertext
encrypt(K, S, t, data, draw) ==
    LET nonce == token_bytes(GCM_NONCE, draw)
        R     == get_key(K, S, t)
    IN  [K |-> R.K, S |-> R.S,
         out |-> nonce \o aes_encrypt(R.K.current_aesgcm, nonce, data)]

\* a decrypt that takes the first 16 bytes for the nonce
nonce_of_16_bytes(encrypted_data) == slice(encrypted_data, 0, 16)

\* decrypt, line 243: encrypted_data[:12]
nonce_of(encrypted_data) == slice(encrypted_data, 0, GCM_NONCE)

\* decrypt, line 244: encrypted_data[12:]
ciphertext_of(encrypted_data) == slice(encrypted_data, GCM_NONCE, Len(encrypted_data))

\* EphemeralKeyManager.decrypt(encrypted_data): out is "ok" with the data as
\* value, or the exception the call raises
decrypt(K, S, t, encrypted_data) ==
    LET R == get_key(K, S, t)
        D == aes_decrypt(R.K.current_aesgcm, nonce_of(encrypted_data),
                         ciphertext_of(encrypted_data))
    IN  [K |-> R.K, S |-> R.S, out |-> D.out, value |-> D.value]

\* hmac.new(key, data + nonce, sha3_256).digest()
hmac_sha3(key, data, nonce) == <<"hmac", key, data \o nonce>>

\* Text is a sequence of runs of characters: a run of the alphabet carries the
\* bytes it encodes, the other runs are characters outside the alphabet.
\* base64.b64encode(bytes).decode('utf-8')
b64encode(bytes) == [i \in 1..Len(bytes) |-> [class |-> "b64", bytes |-> bytes[i]]]

NotB64 == [class |-> "other", bytes |-> <<>>]  \* a character such as "!"
CutB64 == [class |-> "cut", bytes |-> <<>>]    \* base-64 characters that lack their padding

\* base64.b64decode(text), validate=False: characters outside the alphabet
\* are discarded, wrong padding raises binascii.Error
b64decode(text) ==
    LET kept == SelectSeq(text, LAMBDA c : c.class # "other")
    IN  IF \E i \in 1..Len(kept) : kept[i].class = "cut"
        THEN [ok |-> FALSE, bytes |-> <<>>]
        ELSE [ok |-> TRUE, bytes |-> [i \in 1..Len(kept) |-> kept[i].bytes]]

\* bytes.hex()
hex(bytes) == <<[class |-> "hex", bytes |-> bytes]>>

Space == [class |-> "space", bytes |-> ""]   \* ASCII whitespace
NotHex == [class |-> "other", bytes |-> ""]  \* a character such as "z"

RECURSIVE joined(_)
joined(runs) == IF runs = <<>> THEN "" ELSE runs[1].bytes \o joined(Tail(runs))

\* bytes.fromhex(text): whitespace is skipped, any other character that is
\* not a hex digit raises ValueError
fromhex(text) ==
    LET kept == SelectSeq(text, LAMBDA c : c.class # "space")
    IN  IF \E i \in 1..Len(kept) : kept[i].class # "hex"
        THEN [ok |-> FALSE, bytes |-> ""]
        ELSE [ok |-> TRUE, bytes |-> joined(kept)]

\* EphemeralKeyManager.sign_attestation(data): (signature_b64, nonce_hex).
\* The nonce is 16 random bytes, named by the draw that made them.
sign_attestation(K, data, draw) ==
    LET nonce     == draw
        signature == <<hmac_sha3(K.current_key, data, nonce)>>
    IN  [sig |-> b64encode(signature), nonce |-> hex(nonce)]

\* EphemeralKeyManager.verify_attestation: every exception gives False
verify_attestation(K, data, signature_b64, nonce_hex) ==
    LET nonce        == fromhex(nonce_hex)
        expected_sig == b64decode(signature_b64)
        computed_sig == <<hmac_sha3(K.current_key, data, nonce.bytes)>>
    IN  IF ~nonce.ok \/ ~expected_sig.ok THEN FALSE
        ELSE expected_sig.bytes = computed_sig

(***************************************************************************)
(* Fractions: exact values of the floats the stabilizer and the gate keep  *)
(***************************************************************************)
RECURSIVE gcd(_, _)
gcd(a, b) == IF b = 0 THEN a ELSE gcd(b, a % b)

\* n/d with d > 0, in lowest terms
fraction(n, d) == LET g == gcd(IF n < 0 THEN -n ELSE n, d)
                  IN  IF g = 0 THEN [n |-> 0, d |-> 1] ELSE [n |-> n \div g, d |-> d \div g]
frac_le(a, b) == a.n * b.d <= b.n * a.d
frac_lt(a, b) == a.n * b.d < b.n * a.d
frac_min(a, b) == IF frac_le(a, b) THEN a ELSE b
frac_max(a, b) == IF frac_le(a, b) THEN b ELSE a
frac_mul(a, b) == fraction(a.n * b.n, a.d * b.d)
frac_div(a, b) == fraction(a.n * b.d, a.d * b.n)
frac_add(a, b) == fraction(a.n * b.d + b.n * a.d, a.d * b.d)
frac_sub(a, b) == fraction(a.n * b.d - b.n * a.d, a.d * b.d)
One == fraction(1, 1)
Zero == fraction(0, 1)

(***************************************************************************)
(* StabilizerRecal (core/stabilizer/stabilizer_recal.py).  psi and CVaR    *)
(* are in thousandths.  state_history, which nothing reads, is left out.   *)
(***************************************************************************)
CVAR_THRESHOLD == 150        \* 0.15
CONFIRMATION_WINDOW == 5     \* seconds
PSI_MIN == 850               \* 0.85
PSI_MAX == 980               \* 0.98
PSI_DEFAULT == 900           \* 0.90
PSI_INCREMENT == 20          \* 0.02
PRICE_INCREMENT == 200       \* 0.20
MAX_PRICE_MULTIPLIER == 3    \* 3.0
CVaR_lo == 100               \* 0.10, the literal of try_relax
relax_window == 30           \* seconds, the literal of try_relax
history_window == 10         \* seconds of samples update_cvar keeps

\* no update_cvar call yet
NoPushes == [times |-> <<>>, not_low |-> 0 - 1]

\* StabilizerRecal.__init__(initial_psi) at time t; initial_psi = 0 stands
\* for None and for 0.0, which "initial_psi or PSI_DEFAULT" treats alike
StabilizerInit(initial_psi, t) ==
    [psi_target |-> IF initial_psi = 0 THEN PSI_DEFAULT ELSE initial_psi,
     cvar |-> 0,
     price_multiplier |-> One,
     last_recalibration |-> t,
     recalibration_count |-> 0,
     attack_mode |-> FALSE]

\* float('nan') as a sample: every ordered comparison with it is False
NaN == 0 - 1
float_gt(a, b) == a # NaN /\ b # NaN /\ a > b
float_lt(a, b) == a # NaN /\ b # NaN /\ a < b

cvars_since(h, start) == SelectSeq(h, LAMBDA entry : entry.timestamp >= start)
all_above(h, limit) == \A i \in 1..Len(h) : float_gt(h[i].cvar, limit)
all_below(h, limit) == \A i \in 1..Len(h) : float_lt(h[i].cvar, limit)

should_recalibrate_two_samples(h, t) ==
    LET recent_cvars == cvars_since(h, t - CONFIRMATION_WINDOW)
    IN  /\ recent_cvars # <<>>
        /\ all_above(recent_cvars, CVAR_THRESHOLD)
        /\ Len(recent_cvars) >= 2

\* StabilizerRecal._should_recalibrate
should_recalibrate(h, t) ==
    IF h = <<>> THEN FALSE
    ELSE LET recent_cvars == cvars_since(h, t - CONFIRMATION_WINDOW)
         IN  IF recent_cvars = <<>> THEN FALSE
             ELSE all_above(recent_cvars, CVAR_THRESHOLD) /\ Len(recent_cvars) >= 3

\* StabilizerRecal._recalibrate
recalibrate(st, t) ==
    LET old_psi == st.psi_target
        old_price == st.price_multiplier
        new_psi == IF old_psi + PSI_INCREMENT < PSI_MAX THEN old_psi + PSI_INCREMENT
                   ELSE PSI_MAX
        new_price == frac_min(fraction(MAX_PRICE_MULTIPLIER, 1),
                              frac_mul(old_price, fraction(1000 + PRICE_INCREMENT, 1000)))
    IN  [st EXCEPT !.psi_target = new_psi,
                   !.price_multiplier = new_price,
                   !.last_recalibration = t,
                   !.recalibration_count = st.recalibration_count + 1,
                   !.attack_mode = TRUE]

\* StabilizerRecal.update_cvar(cvar) at time t
update_cvar(st, h, t, cvar) ==
    LET h1 == Append(h, [timestamp |-> t, cvar |-> cvar])
        h2 == cvars_since(h1, t - history_window)
        st1 == [st EXCEPT !.cvar = cvar]
    IN  IF should_recalibrate(h2, t)
        THEN [state |-> recalibrate(st1, t), cvar_history |-> h2, out |-> "True"]
        ELSE [state |-> st1, cvar_history |-> h2, out |-> "False"]

\* a relaxation that also takes back one recalibration
relax_takes_back_recalibration(st) ==
    [st EXCEPT !.psi_target = IF st.psi_target - PSI_INCREMENT > PSI_DEFAULT
                              THEN st.psi_target - PSI_INCREMENT ELSE PSI_DEFAULT,
               !.price_multiplier =
                   frac_max(One, frac_div(st.price_multiplier,
                                          fraction(1000 + PRICE_INCREMENT, 1000))),
               !.recalibration_count = st.recalibration_count - 1,
               !.attack_mode = FALSE]

relax_keeps_attack_mode(st) ==
    [st EXCEPT !.psi_target = IF st.psi_target - PSI_INCREMENT > PSI_DEFAULT
                              THEN st.psi_target - PSI_INCREMENT ELSE PSI_DEFAULT,
               !.price_multiplier =
                   frac_max(One, frac_div(st.price_multiplier,
                                          fraction(1000 + PRICE_INCREMENT, 1000)))]

\* StabilizerRecal._relax
relax(st) ==
    LET old_psi == st.psi_target
        old_price == st.price_multiplier
        new_psi == IF old_psi - PSI_INCREMENT > PSI_DEFAULT THEN old_psi - PSI_INCREMENT
                   ELSE PSI_DEFAULT
        new_price == frac_max(One, frac_div(old_price, fraction(1000 + PRICE_INCREMENT, 1000)))
    IN  [st EXCEPT !.psi_target = new_psi,
                   !.price_multiplier = new_price,
                   !.attack_mode = IF new_psi <= PSI_DEFAULT /\ frac_le(new_price, One)
                                   THEN FALSE ELSE st.attack_mode]

\* no caller is inside _recalibrate or _relax
NotInTransition == [pc |-> "idle", old |-> StabilizerInit(0, 0), new_psi |-> 0, new_price |-> One]

\* StabilizerRecal.try_relax() at time t
try_relax(st, h, t) ==
    IF ~st.attack_mode THEN [state |-> st, out |-> "False"]
    ELSE LET recent_cvars == cvars_since(h, t - relax_window)
         IN  IF recent_cvars = <<>> THEN [state |-> st, out |-> "False"]
             ELSE IF all_below(recent_cvars, CVaR_lo) /\ Len(recent_cvars) >= 10
                  THEN [state |-> relax(st), out |-> "True"]
                  ELSE [state |-> st, out |-> "False"]

(***************************************************************************)
(* State after construction: LuaAutoHeal() on a home directory without a   *)
(* log file, and a stand-alone MerkleChainLogger on an empty file.         *)
(***************************************************************************)
EmptyLogs ==
    [chain |-> [l \in Loggers |-> <<>>],
     current_root |-> [l \in Loggers |-> Genesis],
     disk |-> [f \in Files |-> <<>>],
     digests |-> <<>>]

\* a logger object constructed now: it loads what its file holds
construct_logger(S, l) ==
    [S EXCEPT !.chain[l] = load_chain(S.disk[log_file[l]]),
              !.current_root[l] = loaded_root(S.disk[log_file[l]])]

NoKey == [current_key |-> <<"none">>, current_aesgcm |-> <<"none">>,
          key_created_at |-> 0, rotation_count |-> 0]

\* EphemeralKeyManager.__init__
InitKeyManager == rotate_key(NoKey, construct_logger(EmptyLogs, "km"), 0)

\* LuaAutoHeal.__init__
InitAutoHeal ==
    LET S1 == construct_logger(InitKeyManager.S, "ks")
        S2 == construct_logger(S1, "ah")
    IN  append(S2, "ah", 0, "Lua-AutoHeal initialized",
               [version |-> "2.0", rotation_interval |-> rotation_interval,
                kill_switch_threshold |-> threshold], TRUE)

Threads == {"t1", "t2"}

\* the threads that can be inside _rotate_key: the rotation loop, and a
\* caller whose get_key found the key expired
Rotators == {"loop", "caller"}
NotRotating == [pc |-> "idle", new_key |-> <<"none">>, salt |-> <<"salt", 0>>, count |-> 0]

NoEntry == [timestamp |-> 0, event |-> "", metadata |-> [none |-> TRUE],
            prev_root |-> Genesis, merkle_root |-> Genesis]

InitOthers ==
    /\ now = 0
    /\ chain = InitAutoHeal.chain
    /\ current_root = InitAutoHeal.current_root
    /\ disk = InitAutoHeal.disk
    /\ digests = InitAutoHeal.digests
    /\ armed = TRUE
    /\ events = <<>>
    /\ rotation_count = InitKeyManager.K.rotation_count
    /\ key_created_at = InitKeyManager.K.key_created_at
    /\ current_key = InitKeyManager.K.current_key
    /\ current_aesgcm = InitKeyManager.K.current_aesgcm
    /\ rot = [r \in Rotators |-> NotRotating]
    /\ next_rotation = rotation_interval
    /\ written_by = [key_created_at |-> 1, rotation_count |-> 1]
    /\ running = FALSE
    /\ monitor_thread = 0
    /\ worker = <<>>
    /\ total_events = 0
    /\ security_events = 0
    /\ recalibrations = 0
    /\ health_checks = 0
    /\ found_killed = FALSE
    /\ stop_requested = FALSE
    /\ ciphertexts = {}
    /\ signatures = {}
    /\ result = [op |-> "init", out |-> "ok"]
    /\ tampered = FALSE
    /\ pc = [t \in Threads |-> "idle"]
    /\ local = [t \in Threads |-> NoEntry]
    /\ state = StabilizerInit(0, 0)
    /\ cvar_history = <<>>
    /\ pushed = NoPushes
    /\ stab = NotInTransition
    /\ error_timestamps = <<>>
    /\ idempotent_count = 0
    /\ total_webhooks = 0

Init ==
    /\ InitOthers
    /\ action_history = <<>>
    /\ validation_results = <<>>
    /\ calls = [record_action |-> 0, record_validation |-> 0]

(***************************************************************************)
(* The clock                                                               *)
(***************************************************************************)
TickSteps == {30, 60}

Tick ==
    /\ \E d \in TickSteps : now + d <= MaxTime /\ now' = now + d
    /\ stabilizer_unchanged /\ gate_unchanged
    /\ cipher_unchanged /\ rotation_unchanged /\ monitor_unchanged
    /\ UNCHANGED <<chain, current_root, disk, digests, armed, events, rotation_count,
                   key_created_at, current_key, ciphertexts, signatures, result,
                   tampered, pc, local>>

(***************************************************************************)
(* The stand-alone logger, one caller at a time                            *)
(***************************************************************************)
LogEvents == {"Event 1", "Event 2"}
LogMetadata == {[value |-> 42]}

keys_unchanged == UNCHANGED <<rotation_count, key_created_at, current_key,
                              ciphertexts, signatures>>
kill_unchanged == UNCHANGED <<armed, events>>
threads_unchanged == UNCHANGED <<pc, local>>

set_logs(S) ==
    /\ chain' = S.chain
    /\ current_root' = S.current_root
    /\ disk' = S.disk
    /\ digests' = S.digests

\* logger.append(event, metadata) on the stand-alone logger; write_ok tells
\* whether open/write of the log file succeeds
LogAppend(event, metadata, write_ok) ==
    /\ Len(chain["log"]) < MaxChain
    /\ set_logs(append(LogState, "log", now, event, metadata, write_ok))
    /\ result' = IF write_ok
                 THEN [op |-> "append", out |-> "ok",
                       root |-> new_root_of(LogState, "log",
                                            new_entry(LogState, "log", now, event, metadata))]
                 ELSE [op |-> "append", out |-> "OSError"]
    /\ stabilizer_unchanged /\ gate_unchanged
    /\ cipher_unchanged /\ rotation_unchanged /\ monitor_unchanged
    /\ UNCHANGED <<now, tampered>>
    /\ keys_unchanged /\ kill_unchanged /\ threads_unchanged

AppendOk == \E ev \in LogEvents, md \in LogMetadata : LogAppend(ev, md, TRUE)
AppendFails == \E ev \in LogEvents, md \in LogMetadata : LogAppend(ev, md, FALSE)

\* logger.verify_integrity() called on the stand-alone logger
VerifyLog ==
    /\ result' = [op |-> "verify_integrity",
                  out |-> IF verify_integrity(digests, chain["log"]) THEN "True" ELSE "False"]
    /\ stabilizer_unchanged /\ gate_unchanged
    /\ cipher_unchanged /\ rotation_unchanged /\ monitor_unchanged
    /\ UNCHANGED <<now, chain, current_root, disk, digests, tampered>>
    /\ keys_unchanged /\ kill_unchanged /\ threads_unchanged

\* The values a stored field can be overwritten with
TamperedTimes == {0, 30}
TamperedEvents == {"TAMPERED", "Event 1"}
TamperedMetadata == {[value |-> 0], [value |-> 42]}
TamperedRoots(c) == {Genesis, Forged} \cup {c[j].merkle_root : j \in 1..Len(c)}
Fields == {"timestamp", "event", "metadata", "prev_root", "merkle_root"}

FieldValues(c, field) ==
    CASE field = "timestamp" -> TamperedTimes
      [] field = "event" -> TamperedEvents
      [] field = "metadata" -> TamperedMetadata
      [] OTHER -> TamperedRoots(c)

\* logger.chain[i][field] = value, as the tamper test does: one stored field of
\* one entry is overwritten in place with a different value
Tamper(i, field, value) ==
    /\ ~tampered
    /\ i \in 1..Len(chain["log"])
    /\ chain["log"][i][field] # value
    /\ chain' = [chain EXCEPT !["log"][i][field] = value]
    /\ tampered' = TRUE
    /\ result' = [op |-> "tamper", out |-> "ok"]
    /\ stabilizer_unchanged /\ gate_unchanged
    /\ cipher_unchanged /\ rotation_unchanged /\ monitor_unchanged
    /\ UNCHANGED <<now, current_root, disk, digests>>
    /\ keys_unchanged /\ kill_unchanged /\ threads_unchanged

TamperAny ==
    \E i \in 1..MaxChain, field \in Fields :
        \E value \in FieldValues(chain["log"], field) : Tamper(i, field, value)

\* The stand-alone logger used by one thread; the log file may be unwritable
NextLog == AppendOk \/ AppendFails \/ VerifyLog \/ Tick
SpecLog == Init /\ [][NextLog]_vars

\* The stand-alone logger of the tamper test: appends, then one stored field
\* is overwritten
NextTamper == AppendOk \/ TamperAny \/ VerifyLog \/ Tick
SpecTamper == Init /\ [][NextTamper]_vars

(***************************************************************************)
(* The stand-alone logger with several producer threads.  append takes no  *)
(* lock, so a thread can be preempted between any two of its statements.   *)
(***************************************************************************)
InFlight == {t \in Threads : pc[t] \in {"hash", "set_root", "push"}}

\* append, lines 69-75
AppendStart(t, event, metadata) ==
    /\ pc[t] = "idle"
    /\ Len(chain["log"]) + Cardinality(InFlight) < MaxChain
    /\ local' = [local EXCEPT ![t] = new_entry(LogState, "log", now, event, metadata)]
    /\ pc' = [pc EXCEPT ![t] = "hash"]
    /\ stabilizer_unchanged /\ gate_unchanged
    /\ cipher_unchanged /\ rotation_unchanged /\ monitor_unchanged
    /\ UNCHANGED <<now, chain, current_root, disk, digests, result, tampered>>
    /\ keys_unchanged /\ kill_unchanged

\* append, lines 78-80
AppendHash(t) ==
    /\ pc[t] = "hash"
    /\ local' = [local EXCEPT ![t] = with_root(@, new_root_of(LogState, "log", @))]
    /\ digests' = hashed(LogState, "log", local[t]).digests
    /\ pc' = [pc EXCEPT ![t] = "set_root"]
    /\ stabilizer_unchanged /\ gate_unchanged
    /\ cipher_unchanged /\ rotation_unchanged /\ monitor_unchanged
    /\ UNCHANGED <<now, chain, current_root, disk, result, tampered>>
    /\ keys_unchanged /\ kill_unchanged

\* append, line 83
AppendSetRoot(t) ==
    /\ pc[t] = "set_root"
    /\ current_root' = set_root(LogState, "log", local[t].merkle_root).current_root
    /\ pc' = [pc EXCEPT ![t] = "push"]
    /\ stabilizer_unchanged /\ gate_unchanged
    /\ cipher_unchanged /\ rotation_unchanged /\ monitor_unchanged
    /\ UNCHANGED <<now, chain, disk, digests, result, tampered, local>>
    /\ keys_unchanged /\ kill_unchanged

\* append, line 86
AppendPush(t) ==
    /\ pc[t] = "push"
    /\ chain' = push_entry(LogState, "log", local[t]).chain
    /\ pc' = [pc EXCEPT ![t] = "write"]
    /\ stabilizer_unchanged /\ gate_unchanged
    /\ cipher_unchanged /\ rotation_unchanged /\ monitor_unchanged
    /\ UNCHANGED <<now, current_root, disk, digests, result, tampered, local>>
    /\ keys_unchanged /\ kill_unchanged

\* append, lines 89-94
AppendWrite(t) ==
    /\ pc[t] = "write"
    /\ disk' = write_line(LogState, "log", local[t], TRUE).disk
    /\ pc' = [pc EXCEPT ![t] = "idle"]
    /\ result' = [op |-> "append", out |-> "ok"]
    /\ stabilizer_unchanged /\ gate_unchanged
    /\ cipher_unchanged /\ rotation_unchanged /\ monitor_unchanged
    /\ UNCHANGED <<now, chain, current_root, digests, tampered, local>>
    /\ keys_unchanged /\ kill_unchanged

ThreadStart == \E t \in Threads, ev \in LogEvents, md \in LogMetadata : AppendStart(t, ev, md)
ThreadHash == \E t \in Threads : AppendHash(t)
ThreadSetRoot == \E t \in Threads : AppendSetRoot(t)
ThreadPush == \E t \in Threads : AppendPush(t)
ThreadWrite == \E t \in Threads : AppendWrite(t)

NextConc == ThreadStart \/ ThreadHash \/ ThreadSetRoot \/ ThreadPush \/ ThreadWrite
SpecConc == Init /\ [][NextConc]_vars

(***************************************************************************)
(* KillSwitch                                                              *)
(***************************************************************************)

\* in_window with the bug of keeping an event that is exactly window old
in_window_inclusive(t_now, t) == t_now - t <= window

\* report_suspicious_event, line 314: the test an event must pass to be kept
in_window(t_now, t) == t_now - t < window

\* report_suspicious_event, line 327
threshold_reached(n) == n >= threshold

\* activate without its guard on armed
activate_unguarded(a, ev, S, t) ==
    [armed |-> FALSE,
     S |-> append(S, "ks", t, "KILL-SWITCH ACTIVATED",
                  [reason |-> ToString(Len(ev)) \o " suspicious events in "
                                \o ToString(window) \o "s",
                   threshold |-> threshold], TRUE),
     out |-> "SystemExit"]

\* KillSwitch.activate at time t, with armed = a and events = ev: the new
\* armed, the logger state, and how the call ends ("None": it returns,
\* "SystemExit": it raises)
activate(a, ev, S, t) ==
    IF ~a THEN [armed |-> a, S |-> S, out |-> "None"]
    ELSE [armed |-> FALSE,
          S |-> append(S, "ks", t, "KILL-SWITCH ACTIVATED",
                       [reason |-> ToString(Len(ev)) \o " suspicious events in "
                                     \o ToString(window) \o "s",
                        threshold |-> threshold], TRUE),
          out |-> "SystemExit"]

\* KillSwitch.report_suspicious_event at time t: the new events and armed, the
\* logger state, and how the call ends
report_suspicious_event(a, ev, S, t, event_type, details) ==
    LET appended == Append(ev, t)
        kept     == SelectSeq(appended, LAMBDA e : in_window(t, e))
        S1       == append(S, "ks", t, "Suspicious: " \o event_type,
                           [type |-> event_type, details |-> details,
                            count_in_window |-> Len(kept)], TRUE)
        A        == activate(a, kept, S1, t)
    IN  IF threshold_reached(Len(kept))
        THEN [events |-> kept, armed |-> A.armed, S |-> A.S,
              out |-> IF A.out = "SystemExit" THEN "SystemExit" ELSE "True"]
        ELSE [events |-> kept, armed |-> a, S |-> S1, out |-> "False"]

(***************************************************************************)
(* LuaAutoHeal: the calls a process makes on the facade.  A SystemExit     *)
(* raised by the kill-switch ends the thread that made the call (the       *)
(* monitor thread, or a caller that catches it); the process and its other *)
(* threads go on calling.                                                  *)
(***************************************************************************)
ReportTypes == {"x"}
ReportDetails == {[severity |-> "low"]}
Plaintexts == {"P"}
VerifyData == {"P", "Q"}
AesNonces == {"n1"}
SignNonces == {"s1"}

IsSuspicious(e) == \E ty \in ReportTypes : e.event = "Suspicious: " \o ty
IsKill(e) == e.event = "KILL-SWITCH ACTIVATED"
IsSigned(e) == e.event = "Data signed"
CountSuspicious(c) == Cardinality({i \in 1..Len(c) : IsSuspicious(c[i])})
CountKill(c) == Cardinality({i \in 1..Len(c) : IsKill(c[i])})
CountSigned(c) == Cardinality({i \in 1..Len(c) : IsSigned(c[i])})

set_keys(K) ==
    /\ current_key' = K.current_key
    /\ current_aesgcm' = K.current_aesgcm
    /\ key_created_at' = K.key_created_at
    /\ rotation_count' = K.rotation_count
    /\ written_by' = IF K.rotation_count = rotation_count THEN written_by
                     ELSE [key_created_at |-> K.rotation_count,
                           rotation_count |-> K.rotation_count]

\* LuaAutoHeal.report_suspicious(event_type, details)
Report(event_type, details) ==
    /\ CountSuspicious(chain["ks"]) < MaxReports
    /\ LET R == report_suspicious_event(armed, events, LogState, now, event_type, details)
       IN  /\ events' = R.events
           /\ armed' = R.armed
           /\ set_logs(R.S)
           /\ result' = [op |-> "report", out |-> R.out, at |-> now,
                         was_armed |-> armed, count |-> Len(R.events)]
    /\ stabilizer_unchanged /\ gate_unchanged
    /\ cipher_unchanged /\ rotation_unchanged /\ monitor_unchanged
    /\ UNCHANGED <<now, rotation_count, key_created_at, current_key, ciphertexts,
                   signatures, tampered>>
    /\ threads_unchanged

ReportAny == \E ty \in ReportTypes, det \in ReportDetails : Report(ty, det)

\* kill_switch.activate() called directly
Activate ==
    /\ LET A == activate(armed, events, LogState, now)
       IN  /\ armed' = A.armed
           /\ set_logs(A.S)
           /\ result' = [op |-> "activate", out |-> A.out]
    /\ stabilizer_unchanged /\ gate_unchanged
    /\ cipher_unchanged /\ rotation_unchanged /\ monitor_unchanged
    /\ UNCHANGED <<now, events, rotation_count, key_created_at, current_key,
                   ciphertexts, signatures, tampered>>
    /\ threads_unchanged

\* LuaAutoHeal.encrypt(data)
Encrypt(data, draw) ==
    /\ LET R == encrypt(KeyState, LogState, now, data, draw)
       IN  /\ set_keys(R.K)
           /\ set_logs(R.S)
           /\ ciphertexts' = ciphertexts \cup
                  {[bytes |-> R.out, data |-> data, epoch |-> R.K.rotation_count]}
           /\ result' = [op |-> "encrypt", out |-> "ok"]
    /\ stabilizer_unchanged /\ gate_unchanged
    /\ loop_unchanged /\ monitor_unchanged
    /\ UNCHANGED <<now, signatures, tampered>>
    /\ kill_unchanged /\ threads_unchanged

\* LuaAutoHeal.decrypt(encrypted_data) on a ciphertext handed out earlier
Decrypt(ct) ==
    /\ LET R == decrypt(KeyState, LogState, now, ct.bytes)
       IN  /\ set_keys(R.K)
           /\ set_logs(R.S)
           /\ result' = [op |-> "decrypt", out |-> R.out, value |-> R.value, of |-> ct]
    /\ stabilizer_unchanged /\ gate_unchanged
    /\ loop_unchanged /\ monitor_unchanged
    /\ UNCHANGED <<now, ciphertexts, signatures, tampered>>
    /\ kill_unchanged /\ threads_unchanged

\* LuaAutoHeal.sign_data(data)
SignData(data, draw) ==
    /\ CountSigned(chain["ah"]) < MaxSigned
    /\ LET R == sign_attestation(KeyState, data, draw)
       IN  /\ set_logs(append(LogState, "ah", now, "Data signed",
                              [data_hash |-> <<"sha3", data>>, signature |-> R.sig,
                               nonce |-> R.nonce], TRUE))
           /\ signatures' = signatures \cup
                  {[data |-> data, sig |-> R.sig, nonce |-> R.nonce,
                    epoch |-> rotation_count]}
           /\ result' = [op |-> "sign_data", out |-> "ok"]
    /\ stabilizer_unchanged /\ gate_unchanged
    /\ cipher_unchanged /\ rotation_unchanged /\ monitor_unchanged
    /\ UNCHANGED <<now, rotation_count, key_created_at, current_key, ciphertexts, tampered>>
    /\ kill_unchanged /\ threads_unchanged

\* LuaAutoHeal.verify_signature(data, signature_b64, nonce_hex)
VerifySignature(data, signature_b64, nonce_hex) ==
    /\ result' = [op |-> "verify_signature",
                  out |-> IF verify_attestation(KeyState, data, signature_b64, nonce_hex)
                          THEN "True" ELSE "False",
                  data |-> data, sig |-> signature_b64, nonce |-> nonce_hex,
                  epoch |-> rotation_count]
    /\ stabilizer_unchanged /\ gate_unchanged
    /\ cipher_unchanged /\ rotation_unchanged /\ monitor_unchanged
    /\ UNCHANGED <<now, chain, current_root, disk, digests, tampered>>
    /\ keys_unchanged /\ kill_unchanged /\ threads_unchanged

\* LuaAutoHeal.get_status()['status']
GetStatus ==
    /\ result' = [op |-> "get_status", out |-> IF armed THEN "ACTIVE" ELSE "KILLED"]
    /\ stabilizer_unchanged /\ gate_unchanged
    /\ cipher_unchanged /\ rotation_unchanged /\ monitor_unchanged
    /\ UNCHANGED <<now, chain, current_root, disk, digests, tampered>>
    /\ keys_unchanged /\ kill_unchanged /\ threads_unchanged

EncryptAny == \E d \in Plaintexts, n \in AesNonces : Encrypt(d, n)
DecryptAny == \E ct \in ciphertexts : Decrypt(ct)
SignAny == \E d \in Plaintexts, n \in SignNonces : SignData(d, n)
\* what a caller can hand to verify_signature for a signature it was given:
\* the text itself, the text with a character outside the alphabet put in
\* front, text that lacks its padding, no text
SignatureTexts(sig) == {sig, <<NotB64>> \o sig, <<CutB64>>, <<>>}
NonceTexts(nonce) == {nonce, <<Space>> \o nonce, <<NotHex>> \o nonce}

VerifyAny ==
    \E s \in signatures, d \in VerifyData :
        \E sig \in SignatureTexts(s.sig), nonce \in NonceTexts(s.nonce) :
            VerifySignature(d, sig, nonce)

\* A KillSwitch object and its callers: reports, direct activate calls and
\* status queries, as time passes
NextKill == ReportAny \/ Activate \/ GetStatus \/ Tick
SpecKill == Init /\ [][NextKill]_vars

\* The calls the LuaAutoHeal facade offers
NextFacade == ReportAny \/ EncryptAny \/ DecryptAny \/ SignAny \/ VerifyAny
              \/ GetStatus \/ Tick
SpecFacade == Init /\ [][NextFacade]_vars

(***************************************************************************)
(* Claims about the kill-switch                                            *)
(***************************************************************************)
SecureOps == {"encrypt", "decrypt", "sign_data", "verify_signature"}

\* The reports made within the window that ends at time t, read off the
\* kill-switch's chain, which holds one "Suspicious" entry per report made
ReportsInWindow(t) ==
    Cardinality({i \in 1..Len(chain["ks"]) :
                    IsSuspicious(chain["ks"][i]) /\ t - chain["ks"][i].timestamp < window})

LastOf(c) == c[Len(c)]

\* C1: once the kill-switch has been activated, encrypt, decrypt, sign_data
\* and verify_signature refuse with KillSwitchTripped; none of them succeeds
\* in a state where armed is false.
C1_SecureOpsRefuseAfterTrip ==
    (~armed /\ result.op \in SecureOps) => result.out = "KillSwitchTripped"

\* C2: the report that brings the number of reports within the window to the
\* threshold returns true to its caller, and the kill-switch's chain then ends
\* with threshold "Suspicious" entries followed by the one "KILL-SWITCH
\* ACTIVATED" entry.
C2_ThresholdReportReturnsTripped ==
    (result.op = "report" /\ result.was_armed /\ ReportsInWindow(result.at) >= threshold) =>
        /\ result.out = "True"
        /\ LET c == chain["ks"] IN
           /\ Len(c) > threshold
           /\ IsKill(LastOf(c))
           /\ \A k \in 1..threshold : IsSuspicious(c[Len(c) - k])
           /\ CountKill(c) = 1

\* C3: a report that, counting itself, finds fewer than threshold reports
\* inside the window returns false, leaves armed as it was and activates
\* nothing; the reports it counts are exactly those made less than window
\* seconds before it, and events holds no older one.
C3_BelowThresholdReturnsFalse ==
    result.op = "report" =>
        /\ result.count = ReportsInWindow(result.at)
        /\ \A i \in 1..Len(events) : result.at - events[i] < window
        /\ ReportsInWindow(result.at) < threshold =>
              /\ result.out = "False"
              /\ armed = result.was_armed
              /\ IsSuspicious(LastOf(chain["ks"]))

C3_Witness ==
    /\ result.op = "report" /\ result.out = "False" /\ armed
    /\ result.count = threshold - 1
    /\ CountSuspicious(chain["ks"]) >= threshold

\* C4: the chain receives at most one "KILL-SWITCH ACTIVATED" entry, armed
\* never goes back from false to true, and get_status reports KILLED whenever
\* armed is false.
C4_ActivatesOnceAndTerminal ==
    [][ /\ ~armed => ~armed'
        /\ CountKill(chain'["ks"]) <= 1
        /\ (result'.op = "get_status" /\ ~armed') => result'.out = "KILLED" ]_vars

C4_Witness ==
    /\ ~armed /\ CountKill(chain["ks"]) = 1
    /\ result.op = "report" /\ ~result.was_armed /\ result.count >= threshold

\* C5: a report made after the kill-switch has been activated returns true and
\* changes neither events nor the chain.
C5_ReportAfterTripHasNoEffect ==
    [][ (~armed /\ ReportAny) =>
            (result'.out = "True" /\ events' = events /\ chain' = chain) ]_vars

(***************************************************************************)
(* Claims about the chain log                                              *)
(***************************************************************************)
Linked(c) ==
    \A i \in 1..Len(c) :
        c[i].prev_root = (IF i = 1 THEN Genesis ELSE c[i - 1].merkle_root)

\* C6: after any sequence of append calls on a logger that started from an
\* empty log, the first entry's prev_root is the genesis root and every later
\* entry's prev_root is the merkle_root of the entry before it.
C6_ChainLinked == Linked(chain["log"])

C6_Witness == Len(chain["log"]) >= 2 /\ result.op = "append"

\* C7: after any sequence of append calls, with no other modification of the
\* entries, verify_integrity returns true.
C7_VerifyAfterAppends ==
    /\ verify_integrity(digests, chain["log"])
    /\ result.op = "verify_integrity" => result.out = "True"

C7_Witness ==
    Len(chain["log"]) >= 2 /\ result.op = "verify_integrity" /\ result.out = "True"

\* C8: once a single field of a single stored entry of a non-empty chain has
\* been overwritten with a different value, verify_integrity returns false.
C8_TamperDetected ==
    tampered =>
        /\ ~verify_integrity(digests, chain["log"])
        /\ result.op = "verify_integrity" => result.out = "False"

C8_Witness ==
    tampered /\ Len(chain["log"]) >= 2
             /\ result.op = "verify_integrity" /\ result.out = "False"

Quiescent == \A t \in Threads : pc[t] = "idle"

\* C9: for any interleaving of append calls from several threads, once the
\* calls have returned no two entries carry the same prev_root, the chain is
\* linked, current_root is the last entry's merkle_root and verify_integrity
\* is true.
C9_ConcurrentAppendsOrdered ==
    Quiescent =>
        LET c == chain["log"] IN
        /\ \A i, j \in 1..Len(c) : i # j => c[i].prev_root # c[j].prev_root
        /\ Linked(c)
        /\ c # <<>> => current_root["log"] = c[Len(c)].merkle_root
        /\ verify_integrity(digests, c)

\* C10: an append whose disk write fails leaves chain and current_root as
\* they were before the call, and the in-memory chain is never longer than
\* the chain on disk.
C10_FailedWriteLeavesMemory ==
    [][ /\ AppendFails => (chain' = chain /\ current_root' = current_root)
        /\ Len(chain'["log"]) <= Len(disk'["tmp.log"]) ]_vars

(***************************************************************************)
(* The stabilizer and its caller.  The caller feeds CVaR samples and polls *)
(* try_relax, as the driver at the end of stabilizer_recal.py does.        *)
(***************************************************************************)
CvarSamples == {80, 100, 150, 200}
StabSteps == {6}
InitialPsis == {0, 500, 990}

core_unchanged ==
    /\ UNCHANGED <<chain, current_root, disk, digests, armed, events, rotation_count,
                   key_created_at, current_key, ciphertexts, signatures, tampered, pc, local>>
    /\ cipher_unchanged /\ rotation_unchanged /\ monitor_unchanged

\* The level of the stream the caller feeds moves one way round:
\* at the threshold, above it, calm, at the relax level, and again.
next_level(cvar) ==
    CASE cvar = 150 -> 200
      [] cvar = 200 -> 80
      [] cvar = 80 -> 100
      [] OTHER -> 150
feeds_after(cvar) == IF cvar = 0 THEN CvarSamples ELSE {cvar, next_level(cvar)}

not_low(h) == SelectSeq(h, LAMBDA entry : ~float_lt(entry.cvar, CVaR_lo))

last_pushes(times, t) ==
    LET all == Append(times, t)
    IN  IF Len(all) > 10 THEN SubSeq(all, Len(all) - 9, Len(all)) ELSE all

\* stabilizer.update_cvar(cvar), whatever was fed before
Feed(cvar) ==
    LET R == update_cvar(state, cvar_history, now, cvar)
    IN  /\ Len(cvars_since(cvar_history, now - history_window)) < MaxHistory
        /\ ~float_lt(cvar, CVaR_lo)
               => Len(not_low(cvars_since(cvar_history, now - history_window))) < MaxRisky
        /\ state' = R.state
        /\ cvar_history' = R.cvar_history
        /\ pushed' = [times |-> last_pushes(pushed.times, now),
                      not_low |-> IF ~float_lt(cvar, CVaR_lo) THEN now ELSE pushed.not_low]
        /\ result' = [op |-> "update_cvar", out |-> R.out]
        /\ UNCHANGED <<now, stab>>
        /\ core_unchanged /\ gate_unchanged

\* stabilizer.update_cvar(cvar) by a caller that feeds a stream
UpdateCvar(cvar) ==
    /\ cvar \in feeds_after(state.cvar)
    /\ Feed(cvar)

UpdateCvarAny == \E cvar \in CvarSamples : UpdateCvar(cvar)

\* stabilizer.try_relax()
TryRelax ==
    LET R == try_relax(state, cvar_history, now)
    IN  /\ state' = R.state
        /\ result' = [op |-> "try_relax", out |-> R.out]
        /\ UNCHANGED <<now, cvar_history, pushed, stab>>
        /\ core_unchanged /\ gate_unchanged

\* time passes between two calls (time.sleep in the caller)
StabTick ==
    /\ \E d \in StabSteps : now + d <= MaxStabTime /\ now' = now + d
    /\ UNCHANGED <<state, cvar_history, pushed, stab, result>>
    /\ core_unchanged /\ gate_unchanged

\* a caller constructs its own StabilizerRecal(initial_psi)
Construct(initial_psi) ==
    /\ state' = StabilizerInit(initial_psi, now)
    /\ cvar_history' = <<>>
    /\ pushed' = NoPushes
    /\ result' = [op |-> "StabilizerRecal", out |-> "ok"]
    /\ UNCHANGED <<now, stab>>
    /\ core_unchanged /\ gate_unchanged

ConstructAny == \E initial_psi \in InitialPsis : Construct(initial_psi)

\* the process-wide stabilizer of get_stabilizer()
NextStab == UpdateCvarAny \/ TryRelax \/ StabTick
SpecStab == Init /\ [][NextStab]_vars

\* stabilizers constructed with an initial psi of the caller's choice
NextStabAny == ConstructAny \/ UpdateCvarAny \/ TryRelax \/ StabTick
SpecStabAny == Init /\ [][NextStabAny]_vars

\* a slow caller: long pauses between its calls
CalmSteps == {11, 20}

CalmTick ==
    /\ \E d \in CalmSteps : now + d <= MaxCalmTime /\ now' = now + d
    /\ UNCHANGED <<state, cvar_history, pushed, stab, result>>
    /\ core_unchanged /\ gate_unchanged

NextCalm == UpdateCvarAny \/ TryRelax \/ CalmTick
SpecCalm == Init /\ [][NextCalm]_vars

(***************************************************************************)
(* Claims about the stabilizer                                             *)
(***************************************************************************)
Baseline(st) == st.psi_target = PSI_DEFAULT /\ st.price_multiplier = One /\ ~st.attack_mode
Recalibrated == state'.recalibration_count = state.recalibration_count + 1
Price120 == fraction(1000 + PRICE_INCREMENT, 1000)

\* at least 10 samples were pushed in the last relax_window and every sample
\* pushed in it is below CVaR_lo
CalmWindow ==
    /\ Len(pushed.times) >= 10
    /\ pushed.times[1] >= now - relax_window
    /\ pushed.not_low < now - relax_window

\* C11: a stream of samples all above CVaR_hi, fed from the initial state
\* (no sample has left the buffer yet), gives exactly one recalibration: once
\* three samples are in, the state is psi = 0.92, p = 1.20, attack_mode,
\* recalibration_count = 1, and further samples of the stream do not
\* recalibrate again.
C11_OneRecalibrationPerAttack ==
    (/\ now <= history_window
     /\ Len(cvar_history) >= 3
     /\ all_above(cvar_history, CVAR_THRESHOLD)
     /\ Len(cvars_since(cvar_history, now - CONFIRMATION_WINDOW)) >= 3)
    => /\ state.recalibration_count = 1
       /\ state.psi_target = PSI_DEFAULT + PSI_INCREMENT
       /\ state.price_multiplier = Price120
       /\ state.attack_mode

\* C12: update_cvar recalibrates only if the buffer holds at least 3 samples
\* within the last confirm_window and every one of them exceeds CVaR_hi;
\* otherwise it returns false and psi, price, count and attack_mode stay.
C12_RecalibratesOnlyWhenConfirmed ==
    [][UpdateCvarAny =>
        LET inwin == {i \in 1..Len(cvar_history') :
                         cvar_history'[i].timestamp >= now - CONFIRMATION_WINDOW}
            confirmed == /\ Cardinality(inwin) >= 3
                         /\ \A i \in inwin : cvar_history'[i].cvar > CVAR_THRESHOLD
        IN  \/ confirmed
            \/ /\ result'.out = "False"
               /\ state'.psi_target = state.psi_target
               /\ state'.price_multiplier = state.price_multiplier
               /\ state'.recalibration_count = state.recalibration_count
               /\ state'.attack_mode = state.attack_mode]_vars

\* three samples above CVaR_hi in the buffer, fewer than three of them inside
\* the window: the update did not recalibrate
C12_Witness ==
    /\ result.op = "update_cvar" /\ result.out = "False"
    /\ Len(cvar_history) >= 3
    /\ all_above(cvar_history, CVAR_THRESHOLD)
    /\ state.recalibration_count = 0

\* C13: psi_target stays within [PSI_MIN, PSI_MAX] and price_multiplier within
\* [1, MAX_PRICE_MULTIPLIER], for a stabilizer constructed with any initial_psi.
C13_PsiAndPriceInRange ==
    /\ PSI_MIN <= state.psi_target /\ state.psi_target <= PSI_MAX
    /\ frac_le(One, state.price_multiplier)
    /\ frac_le(state.price_multiplier, fraction(MAX_PRICE_MULTIPLIER, 1))

\* C14: update_cvar never lowers psi_target or price_multiplier, and a
\* recalibration raises each of them strictly while it is below its cap.
C14_UpdateNeverLowers ==
    [][UpdateCvarAny =>
        /\ state'.psi_target >= state.psi_target
        /\ frac_le(state.price_multiplier, state'.price_multiplier)
        /\ Recalibrated =>
             /\ state.psi_target < PSI_MAX => state'.psi_target > state.psi_target
             /\ frac_lt(state.price_multiplier, fraction(MAX_PRICE_MULTIPLIER, 1))
                  => frac_lt(state.price_multiplier, state'.price_multiplier)]_vars

\* C15: try_relax relaxes only if at least 10 samples were pushed in the last
\* relax_window and every sample pushed in those 30 s is below CVaR_lo.
C15_RelaxOnlyAfterCalmWindow ==
    [][(TryRelax /\ state' # state) => CalmWindow]_vars

C17_CalmStreamRelaxes ==
    [][(TryRelax /\ state.attack_mode /\ CalmWindow) =>
        /\ result'.out = "True"
        /\ state'.psi_target = (IF state.psi_target - PSI_INCREMENT > PSI_DEFAULT
                                THEN state.psi_target - PSI_INCREMENT ELSE PSI_DEFAULT)
        /\ state'.price_multiplier = frac_max(One, frac_div(state.price_multiplier, Price120))
        /\ (state.psi_target = PSI_DEFAULT + PSI_INCREMENT
            /\ state.price_multiplier = Price120) => Baseline(state')]_vars

(***************************************************************************)
(* OmegaGate (core/omniverse/omega_gate.py).  Confidences and losses are   *)
(* in thousandths; the components and Omega are exact fractions.  An       *)
(* action's timestamp is kept as the instant: fromisoformat gives back     *)
(* what isoformat was given.                                               *)
(***************************************************************************)
W_CVAR == 4              \* 0.4, in tenths
W_BETA == 3              \* 0.3
W_ERR == 2               \* 0.2
W_IDEM == 1              \* 0.1
OMEGA_THRESHOLD == 90    \* 0.90, in hundredths
ALPHA == 5               \* 0.05, in hundredths
WINDOW_SIZE == 100
five_minutes == 300      \* timedelta(minutes=5), seconds

RECURSIVE sum(_)
sum(s) == IF s = <<>> THEN 0 ELSE Head(s) + sum(Tail(s))

max_of(s) == CHOOSE m \in {s[i] : i \in 1..Len(s)} : \A i \in 1..Len(s) : s[i] <= m
without(s, i) == [j \in 1..(Len(s) - 1) |-> IF j < i THEN s[j] ELSE s[j + 1]]

\* sorted(losses, reverse=True)[:cutoff]
RECURSIVE sorted_head(_, _)
sorted_head(losses, cutoff) ==
    IF cutoff = 0 \/ losses = <<>> THEN <<>>
    ELSE LET m == max_of(losses)
             i == CHOOSE j \in 1..Len(losses) : losses[j] = m
         IN  <<m>> \o sorted_head(without(losses, i), cutoff - 1)

tail_size_of_window(n) == (WINDOW_SIZE * ALPHA) \div 100

\* int(len(sorted_losses) * alpha)
tail_size(n) == (n * ALPHA) \div 100

\* OmegaGate._compute_cvar(confidence_scores)
compute_cvar(confidence_scores) ==
    IF confidence_scores = <<>> THEN Zero
    ELSE LET losses == [i \in 1..Len(confidence_scores) |-> 1000 - confidence_scores[i]]
             k == tail_size(Len(losses))
             cutoff == IF k > 1 THEN k ELSE 1
             tail_losses == sorted_head(losses, cutoff)
         IN  fraction(sum(tail_losses), 1000 * Len(tail_losses))

\* OmegaGate._compute_beta
compute_beta(results) ==
    IF results = <<>> THEN Zero
    ELSE fraction(Len(SelectSeq(results, LAMBDA valid : ~valid)), Len(results))

\* OmegaGate._compute_err_5m at time t
compute_err_5m(errors, actions, t) ==
    LET five_min_ago == t - five_minutes
        recent_errors == Len(SelectSeq(errors, LAMBDA ts : ts >= five_min_ago))
        recent_actions == Len(SelectSeq(actions, LAMBDA action : action.timestamp >= five_min_ago))
    IN  IF recent_actions = 0 THEN Zero ELSE fraction(recent_errors, recent_actions)

compute_idem_no_default(idempotent, total) ==
    IF total = 0 THEN Zero ELSE fraction(idempotent, total)

\* OmegaGate._compute_idem
compute_idem(idempotent, total) ==
    IF total = 0 THEN One ELSE fraction(idempotent, total)

last_window(actions) ==
    IF Len(actions) > WINDOW_SIZE
    THEN SubSeq(actions, Len(actions) - WINDOW_SIZE + 1, Len(actions))
    ELSE actions

\* THE FORMULA
omega_of(cvar, beta, err_5m, idem) ==
    frac_add(frac_add(frac_add(frac_mul(fraction(W_CVAR, 10), frac_sub(One, cvar)),
                               frac_mul(fraction(W_BETA, 10), frac_sub(One, beta))),
                      frac_mul(fraction(W_ERR, 10), frac_sub(One, err_5m))),
             frac_mul(fraction(W_IDEM, 10), idem))

\* OmegaGate.compute_omega at time t
compute_omega(actions, errors, results, idempotent, total, t) ==
    LET window_actions == last_window(actions)
        recent_scores == [i \in 1..Len(window_actions) |-> window_actions[i].confidence]
        cvar == compute_cvar(recent_scores)
        beta == compute_beta(results)
        err_5m == compute_err_5m(errors, actions, t)
        idem == compute_idem(idempotent, total)
    IN  [cvar |-> cvar, beta |-> beta, err_5m |-> err_5m, idem |-> idem,
         omega |-> omega_of(cvar, beta, err_5m, idem)]

\* components.omega >= OMEGA_THRESHOLD: the float sum of an Omega that is
\* exactly the threshold may round to either side of it
passes(omega) ==
    IF omega = fraction(OMEGA_THRESHOLD, 100) THEN {TRUE, FALSE}
    ELSE {frac_le(fraction(OMEGA_THRESHOLD, 100), omega)}

\* a record_action that cuts the window from the wrong end
record_action_keeps_oldest(actions, t, action_type, confidence) ==
    LET all == Append(actions, [timestamp |-> t, type |-> action_type,
                                confidence |-> confidence])
    IN  IF Len(all) > WINDOW_SIZE * 2
        THEN SubSeq(all, 1, WINDOW_SIZE)
        ELSE all

\* OmegaGate.record_action(action_type, confidence) at time t
record_action(actions, t, action_type, confidence) ==
    LET all == Append(actions, [timestamp |-> t, type |-> action_type,
                                confidence |-> confidence])
    IN  IF Len(all) > WINDOW_SIZE * 2
        THEN SubSeq(all, Len(all) - WINDOW_SIZE + 1, Len(all))
        ELSE all

\* OmegaGate.record_error() at time t
record_error(errors, t) ==
    SelectSeq(Append(errors, t), LAMBDA ts : ts >= t - five_minutes)

\* OmegaGate.record_validation(is_valid)
record_validation(results, is_valid) ==
    LET all == Append(results, is_valid)
    IN  IF Len(all) > WINDOW_SIZE
        THEN SubSeq(all, Len(all) - WINDOW_SIZE + 1, Len(all))
        ELSE all

(***************************************************************************)
(* The gate and its callers                                                *)
(***************************************************************************)
Confidences == {1000, 100}
GateSteps == {301}

others_unchanged == core_unchanged /\ stabilizer_unchanged

RecordAction(confidence) ==
    /\ Len(action_history) < MaxActions
    /\ action_history' = record_action(action_history, now, "deploy", confidence)
    /\ calls' = [calls EXCEPT !.record_action = @ + 1]
    /\ result' = [op |-> "record_action", out |-> "None"]
    /\ UNCHANGED <<now, error_timestamps, validation_results, idempotent_count, total_webhooks>>
    /\ others_unchanged

RecordActionAny == \E confidence \in Confidences : RecordAction(confidence)

RecordError ==
    /\ Len(error_timestamps) < MaxErrors
    /\ error_timestamps' = record_error(error_timestamps, now)
    /\ result' = [op |-> "record_error", out |-> "None"]
    /\ UNCHANGED <<now, action_history, validation_results, idempotent_count, total_webhooks,
                   calls>>
    /\ others_unchanged

RecordValidation(is_valid) ==
    /\ Len(validation_results) < MaxValidations
    /\ validation_results' = record_validation(validation_results, is_valid)
    /\ calls' = [calls EXCEPT !.record_validation = @ + 1]
    /\ result' = [op |-> "record_validation", out |-> "None"]
    /\ UNCHANGED <<now, action_history, error_timestamps, idempotent_count, total_webhooks>>
    /\ others_unchanged

RecordValidationAny == \E is_valid \in BOOLEAN : RecordValidation(is_valid)

RecordWebhook(is_idempotent) ==
    /\ total_webhooks < MaxWebhooks
    /\ total_webhooks' = total_webhooks + 1
    /\ idempotent_count' = IF is_idempotent THEN idempotent_count + 1 ELSE idempotent_count
    /\ result' = [op |-> "record_webhook", out |-> "None"]
    /\ UNCHANGED <<now, action_history, error_timestamps, validation_results, calls>>
    /\ others_unchanged

RecordWebhookAny == \E is_idempotent \in BOOLEAN : RecordWebhook(is_idempotent)

\* gate.compute_omega()
ComputeOmega ==
    /\ result' = [op |-> "compute_omega", out |-> "components",
                  components |-> compute_omega(action_history, error_timestamps,
                                               validation_results, idempotent_count,
                                               total_webhooks, now)]
    /\ UNCHANGED now
    /\ gate_unchanged /\ others_unchanged

\* gate.check_gate()
CheckGate ==
    LET components == compute_omega(action_history, error_timestamps, validation_results,
                                    idempotent_count, total_webhooks, now)
    IN  /\ \E passed \in passes(components.omega) :
              result' = [op |-> "check_gate", out |-> IF passed THEN "True" ELSE "False",
                         components |-> components]
        /\ UNCHANGED now
        /\ gate_unchanged /\ others_unchanged

GateTick ==
    /\ \E d \in GateSteps : now + d <= MaxGateTime /\ now' = now + d
    /\ UNCHANGED result
    /\ gate_unchanged /\ others_unchanged

NextOmega == RecordActionAny \/ RecordError \/ RecordValidationAny \/ RecordWebhookAny
             \/ ComputeOmega \/ CheckGate \/ GateTick
SpecOmega == Init /\ [][NextOmega]_vars

\* The CVaR estimate on given windows: the gate after its callers recorded
\* front + good + back actions, low confidence first and last.
FrontSizes == {0, 1, 5}
GoodSizes == {0, 5, 39, 95, 100}
BackSizes == {0, 1, 5}

\* n record_action calls with one confidence, made at construction time
recorded(confidence, n) ==
    [i \in 1..n |-> [timestamp |-> 0, type |-> "deploy", confidence |-> confidence]]

InitCvar ==
    /\ InitOthers
    /\ \E front \in FrontSizes, good \in GoodSizes, back \in BackSizes :
          /\ action_history = recorded(100, front) \o recorded(1000, good) \o recorded(100, back)
          /\ calls = [record_action |-> front + good + back, record_validation |-> 0]
    /\ validation_results = <<>>

NextCvar == RecordActionAny \/ ComputeOmega \/ CheckGate
SpecCvar == InitCvar /\ [][NextCvar]_vars

(***************************************************************************)
(* Claims about the Omega gate                                             *)
(***************************************************************************)
InUnit(f) == frac_le(Zero, f) /\ frac_le(f, One)
HasComponents == result.op \in {"compute_omega", "check_gate"}
Threshold == fraction(OMEGA_THRESHOLD, 100)

\* every recorded observation is perfect, and no error was recorded
Pristine ==
    /\ \A i \in 1..Len(action_history) : action_history[i].confidence = 1000
    /\ \A i \in 1..Len(validation_results) : validation_results[i]
    /\ idempotent_count = total_webhooks
    /\ error_timestamps = <<>>

\* C18: compute_omega yields cvar, beta, err_5m, idem and omega each in [0, 1]
\* whatever was recorded, also with more errors than actions in the last
\* 5 minutes.
C18_ComponentsInUnitInterval ==
    HasComponents =>
        /\ InUnit(result.components.cvar)
        /\ InUnit(result.components.beta)
        /\ InUnit(result.components.err_5m)
        /\ InUnit(result.components.idem)
        /\ InUnit(result.components.omega)

WindowLosses ==
    LET w == last_window(action_history)
    IN  [i \in 1..Len(w) |-> 1000 - w[i].confidence]

\* sum of the k largest of the losses, counted value by value
RECURSIVE top_sum(_, _, _)
top_sum(values, losses, k) ==
    IF values = {} \/ k <= 0 THEN 0
    ELSE LET v == CHOOSE x \in values : \A y \in values : y <= x
             count == Cardinality({i \in 1..Len(losses) : losses[i] = v})
             taken == IF count < k THEN count ELSE k
         IN  v * taken + top_sum(values \ {v}, losses, k - taken)

TailMean(k) ==
    LET losses == WindowLosses
        values == {losses[i] : i \in 1..Len(losses)}
        taken == IF Len(losses) < k THEN Len(losses) ELSE k
    IN  IF losses = <<>> THEN Zero ELSE fraction(top_sum(values, losses, taken), 1000 * taken)

Burst95And5 ==
    /\ Len(action_history) = WINDOW_SIZE
    /\ Cardinality({i \in 1..WINDOW_SIZE : action_history[i].confidence = 1000}) = 95
    /\ Cardinality({i \in 1..WINDOW_SIZE : action_history[i].confidence = 100}) = 5

KeySteps == {150, 301}

\* one round of _rotation_loop: the sleep has ended, _rotate_key, sleep again
RotationLoop ==
    /\ now >= next_rotation
    /\ LET R == rotate_key(KeyState, LogState, now)
       IN  /\ set_keys(R.K)
           /\ set_logs(R.S)
    /\ next_rotation' = now + rotation_interval
    /\ result' = [op |-> "_rotation_loop", out |-> "ok"]
    /\ stabilizer_unchanged /\ gate_unchanged /\ monitor_unchanged
    /\ UNCHANGED <<now, rot, ciphertexts, signatures, tampered>>
    /\ kill_unchanged /\ threads_unchanged

KeyTick ==
    /\ \E d \in KeySteps : now + d <= MaxKeyTime /\ now' = now + d
    /\ UNCHANGED <<chain, current_root, disk, digests, ciphertexts, signatures, result,
                   tampered>>
    /\ stabilizer_unchanged /\ gate_unchanged
    /\ cipher_unchanged /\ rotation_unchanged /\ monitor_unchanged
    /\ keys_unchanged /\ kill_unchanged /\ threads_unchanged

NextKeys == EncryptAny \/ DecryptAny \/ SignAny \/ VerifyAny \/ RotationLoop \/ KeyTick
SpecKeys == Init /\ [][NextKeys]_vars

(***************************************************************************)
(* Claims about the key manager                                            *)
(***************************************************************************)
\* the step is a decrypt call
Decrypted == result'.op = "decrypt" /\ result' # result

\* C21: decrypt(encrypt(P)) returns P when both calls happen within the same
\* key epoch: no rotation, timed or forced, between or during them.
C21_RoundTripWithinEpoch ==
    [][(Decrypted /\ result'.of.epoch = rotation_count /\ rotation_count' = rotation_count)
         => (result'.out = "ok" /\ result'.value = result'.of.data)]_vars

\* a ciphertext was decrypted in the epoch it was made in, after a rotation
C21_Witness ==
    /\ result.op = "decrypt"
    /\ result.of.epoch = rotation_count
    /\ rotation_count > 1
    /\ result.value = "P"

\* C22: decrypt succeeds only on ciphertexts produced under the current
\* ephemeral key; once a rotation has happened after encrypt(P), decrypt of
\* that ciphertext fails with an authentication failure and returns no
\* plaintext.
C22_ForwardSecrecy ==
    [][Decrypted =>
         /\ result'.out = "ok" => result'.of.epoch = rotation_count'
         /\ result'.of.epoch < rotation_count' =>
                (result'.out = "InvalidTag" /\ result'.value = "")]_vars

\* a ciphertext of an earlier epoch was refused
C22_Witness ==
    /\ result.op = "decrypt"
    /\ result.of.epoch < rotation_count
    /\ result.out = "InvalidTag"

\* the step is a verify_signature call
Verified == result'.op = "verify_signature" /\ result' # result

\* text that is not base-64: a character outside the alphabet, or no padding
MalformedSignature(text) == \E i \in 1..Len(text) : text[i].class # "b64"

\* text that is not hex digits, whitespace apart
MalformedNonce(text) == \E i \in 1..Len(text) : text[i].class = "other"

\* C23: within one key epoch, for (sig, nonce) = sign(D): verify(D, sig, nonce)
\* is true and verify(D', sig, nonce) is false for every D' other than D;
\* verify returns false, and does not raise, on a malformed signature or nonce.
C23_VerifyAcceptsOnlyTheSignedData ==
    [][Verified =>
         /\ result'.out \in {"True", "False"}
         /\ \A s \in signatures :
                (s.epoch = rotation_count /\ s.sig = result'.sig /\ s.nonce = result'.nonce)
                    => (result'.out = "True" <=> result'.data = s.data)
         /\ (MalformedSignature(result'.sig) \/ MalformedNonce(result'.nonce))
                => result'.out = "False"]_vars

(***************************************************************************)
(* _rotate_key statement by statement.  The key manager holds no lock: the *)
(* rotation loop, a caller whose get_key found the key expired, and the    *)
(* callers that sign and encrypt run as the scheduler interleaves them.    *)
(***************************************************************************)
\* the rotation that derived a key: the number of its salt
rotation_of(key) == key[3][2]

rotating_frame ==
    /\ UNCHANGED <<now, ciphertexts, signatures, result, tampered>>
    /\ stabilizer_unchanged /\ gate_unchanged /\ monitor_unchanged
    /\ kill_unchanged /\ threads_unchanged

\* get_key line 217 for a caller, the end of the sleep for the loop; then
\* lines 187-191: salt, new_key, self.current_key = new_key
RotateKey(r) ==
    /\ rot[r].pc = "idle"
    /\ rotation_of(current_key) < MaxRotations
    /\ IF r = "loop" THEN now >= next_rotation
       ELSE now - key_created_at > rotation_interval
    /\ LET salt    == <<"salt", rotation_of(current_key) + 1>>
           new_key == derive_ephemeral_key(salt)
       IN  /\ current_key' = new_key
           /\ rot' = [rot EXCEPT ![r] = [pc |-> "cipher", new_key |-> new_key,
                                         salt |-> salt, count |-> 0]]
    /\ UNCHANGED <<chain, current_root, disk, digests, current_aesgcm, key_created_at,
                   rotation_count, written_by, next_rotation>>
    /\ rotating_frame

\* line 192: self.current_aesgcm = AESGCM(new_key)
RotateCipher(r) ==
    /\ rot[r].pc = "cipher"
    /\ current_aesgcm' = rot[r].new_key
    /\ rot' = [rot EXCEPT ![r].pc = "stamp"]
    /\ UNCHANGED <<chain, current_root, disk, digests, current_key, key_created_at,
                   rotation_count, written_by, next_rotation>>
    /\ rotating_frame

\* line 193: self.key_created_at = datetime.utcnow()
RotateStamp(r) ==
    /\ rot[r].pc = "stamp"
    /\ key_created_at' = now
    /\ written_by' = [written_by EXCEPT !.key_created_at = rotation_of(rot[r].new_key)]
    /\ rot' = [rot EXCEPT ![r].pc = "count_read"]
    /\ UNCHANGED <<chain, current_root, disk, digests, current_key, current_aesgcm,
                   rotation_count, next_rotation>>
    /\ rotating_frame

\* line 194, self.rotation_count += 1: the read
RotateCountRead(r) ==
    /\ rot[r].pc = "count_read"
    /\ rot' = [rot EXCEPT ![r].pc = "count_write", ![r].count = rotation_count]
    /\ UNCHANGED <<chain, current_root, disk, digests, current_key, current_aesgcm,
                   key_created_at, rotation_count, written_by, next_rotation>>
    /\ rotating_frame

\* line 194, self.rotation_count += 1: the write
RotateCountWrite(r) ==
    /\ rot[r].pc = "count_write"
    /\ rotation_count' = rot[r].count + 1
    /\ written_by' = [written_by EXCEPT !.rotation_count = rotation_of(rot[r].new_key)]
    /\ rot' = [rot EXCEPT ![r].pc = "log"]
    /\ UNCHANGED <<chain, current_root, disk, digests, current_key, current_aesgcm,
                   key_created_at, next_rotation>>
    /\ rotating_frame

\* lines 197-207: the rotation's chain entry; then the loop sleeps again and
\* a caller goes back to get_key
RotateLog(r) ==
    /\ rot[r].pc = "log"
    /\ set_logs(append(LogState, "km", now,
                       "Key rotation #" \o ToString(rotation_count),
                       [rotation_count |-> rotation_count,
                        key_hash_sha3 |-> <<"sha3", rot[r].new_key>>,
                        salt_hash |-> <<"sha3", rot[r].salt>>,
                        valid_until |-> key_created_at + rotation_interval], TRUE))
    /\ rot' = [rot EXCEPT ![r].pc = IF r = "loop" THEN "idle" ELSE "return"]
    /\ next_rotation' = IF r = "loop" THEN now + rotation_interval ELSE next_rotation
    /\ UNCHANGED <<current_key, current_aesgcm, key_created_at, rotation_count, written_by>>
    /\ rotating_frame

\* get_key line 222 after a forced rotation, and the rest of encrypt
EncryptAfterRotation(data, draw) ==
    /\ rot["caller"].pc = "return"
    /\ LET nonce == token_bytes(GCM_NONCE, draw)
       IN  ciphertexts' = ciphertexts \cup
               {[bytes |-> nonce \o aes_encrypt(current_aesgcm, nonce, data),
                 data |-> data, epoch |-> rotation_count]}
    /\ result' = [op |-> "encrypt", out |-> "ok"]
    /\ rot' = [rot EXCEPT !["caller"] = NotRotating]
    /\ UNCHANGED <<now, chain, current_root, disk, digests, current_key, current_aesgcm,
                   key_created_at, rotation_count, written_by, next_rotation, signatures,
                   tampered>>
    /\ stabilizer_unchanged /\ gate_unchanged /\ monitor_unchanged
    /\ kill_unchanged /\ threads_unchanged

\* encrypt by a caller whose get_key finds the key young enough
EncryptUnexpired(data, draw) ==
    /\ now - key_created_at <= rotation_interval
    /\ Encrypt(data, draw)

RotateKeyAny == \E r \in Rotators : RotateKey(r)
RotateCipherAny == \E r \in Rotators : RotateCipher(r)
RotateStampAny == \E r \in Rotators : RotateStamp(r)
RotateCountReadAny == \E r \in Rotators : RotateCountRead(r)
RotateCountWriteAny == \E r \in Rotators : RotateCountWrite(r)
RotateLogAny == \E r \in Rotators : RotateLog(r)
EncryptAfterRotationAny == \E d \in Plaintexts, n \in AesNonces : EncryptAfterRotation(d, n)
EncryptUnexpiredAny == \E d \in Plaintexts, n \in AesNonces : EncryptUnexpired(d, n)

NextRotate == RotateKeyAny \/ RotateCipherAny \/ RotateStampAny \/ RotateCountReadAny
              \/ RotateCountWriteAny \/ RotateLogAny \/ EncryptAfterRotationAny
              \/ EncryptUnexpiredAny \/ SignAny \/ KeyTick
SpecRotate == Init /\ [][NextRotate]_vars

\* the four fields of the key record were written by one rotation
SameRotation ==
    /\ rotation_of(current_aesgcm) = rotation_of(current_key)
    /\ written_by.key_created_at = rotation_of(current_key)
    /\ written_by.rotation_count = rotation_of(current_key)

\* the step is a call that reads the key record
ReadsKeyRecord ==
    /\ result'.op \in {"encrypt", "decrypt", "sign_data", "verify_signature"}
    /\ result' # result

\* C24: key rotation is atomic to concurrent callers: an encrypt, decrypt,
\* sign or verify in another thread finds current_key, current_aesgcm,
\* key_created_at and rotation_count all of the same rotation, never a
\* record that is installed in part.
C24_RotationAtomicToCallers == [][ReadsKeyRecord => SameRotation]_vars

(***************************************************************************)
(* UnifiedMonitor, constructed with the default monitor_interval over the  *)
(* process-wide LuaAutoHeal and StabilizerRecal.  The OmegaGate the monitor*)
(* constructs has no current_omega attribute, so line 161 always reads     *)
(* None and the monitor never reports low_omega.                           *)
(***************************************************************************)
MonitorStats == [total_events |-> total_events, security_events |-> security_events,
                 recalibrations |-> recalibrations]

set_stats(M) ==
    /\ total_events' = M.total_events
    /\ security_events' = M.security_events
    /\ recalibrations' = M.recalibrations

\* report_event, lines 184-190
suspicious_types == {"failed_auth", "invalid_signature", "rate_limit_exceeded",
                     "unauthorized_access", "tampering_detected"}

\* the integrity check of a status query that looks at the kill-switch's chain
chain_integrity_of_kill_switch(S) == verify_integrity(S.digests, S.chain["ks"])

\* LuaAutoHeal.verify_integrity: self.logger.verify_integrity()
chain_integrity(S) == verify_integrity(S.digests, S.chain["ah"])

\* LuaAutoHeal.get_status() at time t
get_status(a, K, S, t) ==
    [status |-> IF a THEN "ACTIVE" ELSE "KILLED",
     rotation_count |-> K.rotation_count,
     current_key_age |-> t - K.key_created_at,
     merkle_root |-> S.current_root["ah"],
     chain_length |-> Len(S.chain["ah"]),
     chain_integrity |-> chain_integrity(S)]

\* _check_system_health, line 142
high_cvar(cvar) == float_gt(cvar, CVAR_HIGH)

\* the state a report leaves, or the state as it was when none is made
reported(made, R, a, ev, S) ==
    IF made THEN [armed |-> R.armed, events |-> R.events, S |-> R.S, out |-> R.out]
    ELSE [armed |-> a, events |-> ev, S |-> S, out |-> "False"]

\* UnifiedMonitor._check_system_health at time t.  out is "KILLED" when the
\* status found is not ACTIVE, "SystemExit" when a report of the iteration
\* tripped the kill-switch (the exception leaves the method at that line),
\* "None" when the method ran to its end.
check_system_health(M, a, ev, S, K, st, t) ==
    LET ah_status == get_status(a, K, S, t)
        failed    == ~ah_status.chain_integrity
        R1 == reported(failed,
                       report_suspicious_event(a, ev, S, t, "chain_integrity_failure",
                                               [chain_length |-> ah_status.chain_length]),
                       a, ev, S)
        M1 == IF failed THEN [M EXCEPT !.security_events = @ + 1] ELSE M
        high == high_cvar(st.cvar)
        R2 == reported(high,
                       report_suspicious_event(R1.armed, R1.events, R1.S, t, "high_cvar",
                                               [cvar |-> st.cvar,
                                                psi_target |-> st.psi_target,
                                                attack_mode |-> st.attack_mode]),
                       R1.armed, R1.events, R1.S)
        M2 == IF high THEN [M1 EXCEPT !.security_events = @ + 1] ELSE M1
        M3 == IF st.recalibration_count > M2.recalibrations
              THEN [M2 EXCEPT !.recalibrations = st.recalibration_count] ELSE M2
    IN  IF ah_status.status # "ACTIVE"
        THEN [M |-> M, armed |-> a, events |-> ev, S |-> S, out |-> "KILLED"]
        ELSE IF R1.out = "SystemExit"
        THEN [M |-> M, armed |-> R1.armed, events |-> R1.events, S |-> R1.S,
              out |-> "SystemExit"]
        ELSE IF R2.out = "SystemExit"
        THEN [M |-> M1, armed |-> R2.armed, events |-> R2.events, S |-> R2.S,
              out |-> "SystemExit"]
        ELSE [M |-> [M3 EXCEPT !.total_events = @ + 1],
              armed |-> R2.armed, events |-> R2.events, S |-> R2.S, out |-> "None"]

\* UnifiedMonitor.report_event(event_type, details) at time t
report_event(M, a, ev, S, t, event_type, details) ==
    LET S1 == append(S, "ah", t, "Event: " \o event_type, details, TRUE)
        R  == report_suspicious_event(a, ev, S1, t, event_type, details)
    IN  IF event_type \notin suspicious_types
        THEN [M |-> [M EXCEPT !.total_events = @ + 1],
              armed |-> a, events |-> ev, S |-> S1, out |-> "None"]
        ELSE IF R.out = "SystemExit"
        THEN [M |-> M, armed |-> R.armed, events |-> R.events, S |-> R.S,
              out |-> "SystemExit"]
        ELSE [M |-> [M EXCEPT !.security_events = @ + 1, !.total_events = @ + 1],
              armed |-> R.armed, events |-> R.events, S |-> R.S, out |-> "None"]

(***************************************************************************)
(* The monitor's calls and its worker threads.  A worker runs a health     *)
(* check when its sleep ends, and time does not pass a worker whose sleep  *)
(* has ended.                                                              *)
(***************************************************************************)
EventTypes == {"failed_auth", "test_event"}
EventDetails == {[test |-> TRUE]}
HealthSamples == {150, 200}

Alive(w) == worker[w].status = "alive"
Due(w) == Alive(w) /\ worker[w].wake <= now
AliveWorkers == {w \in 1..Len(worker) : Alive(w)}

monitor_frame ==
    /\ UNCHANGED <<ciphertexts, signatures, tampered>>
    /\ stabilizer_unchanged /\ gate_unchanged
    /\ cipher_unchanged /\ rotation_unchanged
    /\ keys_unchanged /\ threads_unchanged

\* the workers whose sleep ends while stop() waits in join find running
\* False and return
after_join(ws, t) ==
    [w \in 1..Len(ws) |->
        IF ws[w].status = "alive" /\ ws[w].wake <= t
        THEN [status |-> "dead", wake |-> ws[w].wake] ELSE ws[w]]

\* UnifiedMonitor.start()
Start ==
    /\ IF running
       THEN /\ result' = [op |-> "start", out |-> "already running"]
            /\ UNCHANGED <<running, monitor_thread, worker, stop_requested, chain,
                           current_root, disk, digests>>
       ELSE /\ Len(worker) < MaxWorkers
            /\ running' = TRUE
            /\ worker' = Append(worker, [status |-> "alive", wake |-> now])
            /\ monitor_thread' = Len(worker) + 1
            /\ stop_requested' = FALSE
            /\ set_logs(append(LogState, "ah", now, "UnifiedMonitor started",
                               [monitor_interval |-> monitor_interval,
                                components |-> <<"AutoHeal", "Stabilizer", "OmegaGate">>],
                               TRUE))
            /\ result' = [op |-> "start", out |-> "started"]
    /\ UNCHANGED <<now, total_events, security_events, recalibrations, health_checks,
                   found_killed>>
    /\ kill_unchanged /\ monitor_frame

\* UnifiedMonitor.stop(): join waits for the worker created last until its
\* sleep ends, and for join_timeout seconds at most
Stop ==
    /\ IF ~running
       THEN /\ result' = [op |-> "stop", out |-> "not running"]
            /\ UNCHANGED <<now, running, worker, stop_requested, chain, current_root,
                           disk, digests>>
       ELSE LET t == IF monitor_thread = 0 \/ ~Alive(monitor_thread) THEN now
                     ELSE IF worker[monitor_thread].wake <= now + join_timeout
                     THEN (IF worker[monitor_thread].wake > now
                           THEN worker[monitor_thread].wake ELSE now)
                     ELSE now + join_timeout
            IN  /\ running' = FALSE
                /\ now' = t
                /\ worker' = after_join(worker, t)
                /\ stop_requested' = TRUE
                /\ set_logs(append(LogState, "ah", t, "UnifiedMonitor stopped",
                                   [total_events |-> total_events,
                                    security_events |-> security_events,
                                    recalibrations |-> recalibrations,
                                    uptime_seconds |-> t], TRUE))
                /\ result' = [op |-> "stop", out |-> "stopped"]
    /\ UNCHANGED <<monitor_thread, total_events, security_events, recalibrations,
                   health_checks, found_killed>>
    /\ kill_unchanged /\ monitor_frame

\* _monitor_loop, one round of worker w: the loop test finds running True,
\* _check_system_health, time.sleep(monitor_interval).  SystemExit is not an
\* Exception: it passes the except clause and ends the thread.
MonitorIteration(w) ==
    /\ w \in 1..Len(worker) /\ Due(w)
    /\ running
    /\ health_checks < MaxChecks
    /\ LET R == check_system_health(MonitorStats, armed, events, LogState, KeyState,
                                    state, now)
       IN  /\ set_stats(R.M)
           /\ armed' = R.armed
           /\ events' = R.events
           /\ set_logs(R.S)
           /\ worker' = [worker EXCEPT ![w] =
                            IF R.out = "SystemExit" THEN [status |-> "dead", wake |-> now]
                            ELSE [status |-> "alive", wake |-> now + monitor_interval]]
           /\ found_killed' = (found_killed \/ R.out = "KILLED")
           /\ result' = [op |-> "_check_system_health", out |-> R.out]
    /\ health_checks' = health_checks + 1
    /\ UNCHANGED <<now, running, monitor_thread, stop_requested>>
    /\ monitor_frame

\* _monitor_loop: the loop test finds running False and the thread ends
MonitorExit(w) ==
    /\ w \in 1..Len(worker) /\ Due(w)
    /\ ~running
    /\ worker' = [worker EXCEPT ![w].status = "dead"]
    /\ result' = [op |-> "_monitor_loop", out |-> "returned"]
    /\ UNCHANGED <<now, chain, current_root, disk, digests, running, monitor_thread,
                   stop_requested, total_events, security_events, recalibrations,
                   health_checks, found_killed>>
    /\ kill_unchanged /\ monitor_frame

\* UnifiedMonitor.report_event(event_type, details)
ReportEvent(event_type, details) ==
    /\ total_events < MaxEvents
    /\ Len(chain["ks"]) < MaxReports
    /\ LET R == report_event(MonitorStats, armed, events, LogState, now, event_type, details)
       IN  /\ set_stats(R.M)
           /\ armed' = R.armed
           /\ events' = R.events
           /\ set_logs(R.S)
           /\ result' = [op |-> "report_event", out |-> R.out, type |-> event_type]
    /\ UNCHANGED <<now, running, monitor_thread, worker, stop_requested, health_checks,
                   found_killed>>
    /\ monitor_frame

\* the chain of the AutoHeal logger is overwritten in memory, as the tamper
\* test does it: chain[i]['event'] = "TAMPERED"
TamperAutoHeal ==
    /\ ~tampered
    /\ chain["ah"] # <<>>
    /\ chain' = [chain EXCEPT !["ah"][1].event = "TAMPERED"]
    /\ tampered' = TRUE
    /\ result' = [op |-> "tamper", out |-> "ok"]
    /\ UNCHANGED <<now, current_root, disk, digests, ciphertexts, signatures>>
    /\ stabilizer_unchanged /\ gate_unchanged
    /\ cipher_unchanged /\ rotation_unchanged /\ monitor_unchanged
    /\ keys_unchanged /\ kill_unchanged /\ threads_unchanged

\* the stabilizer's caller feeds a sample
FeedCvar(cvar) ==
    /\ Len(cvar_history) < MaxFeeds
    /\ UpdateCvar(cvar)

\* time passes, to the end of the next sleep when there is one
MonitorTick(steps, limit) ==
    /\ \A w \in 1..Len(worker) : ~Due(w)
    /\ \E d \in steps :
          LET wakes == {worker[w].wake : w \in AliveWorkers}
              t     == IF \E k \in wakes : k <= now + d
                       THEN CHOOSE k \in wakes : \A j \in wakes : k <= j
                       ELSE now + d
          IN  t <= limit /\ now' = t
    /\ UNCHANGED <<chain, current_root, disk, digests, result>>
    /\ monitor_unchanged /\ kill_unchanged /\ monitor_frame

MonitorIterationAny == \E w \in 1..MaxWorkers : MonitorIteration(w)
MonitorExitAny == \E w \in 1..MaxWorkers : MonitorExit(w)
ReportEventAny == \E ty \in EventTypes, det \in EventDetails : ReportEvent(ty, det)
FeedCvarAny == \E cvar \in HealthSamples : FeedCvar(cvar)

\* Starting and stopping the monitor, with the kill-switch activated by some
\* thread and the rotation loop in the background
LifeSteps == {300}
LifeTick == MonitorTick(LifeSteps, MaxLifeTime)
NextLife == Start \/ Stop \/ MonitorIterationAny \/ MonitorExitAny \/ Activate
            \/ RotationLoop \/ LifeTick
SpecLife == Init /\ [][NextLife]_vars

\* A monitor that is started and stopped while the chain it watches gets
\* overwritten
HealthSteps == {60}
HealthTick == MonitorTick(HealthSteps, MaxHealthTime)
NextHealth == Start \/ Stop \/ MonitorIterationAny \/ MonitorExitAny \/ TamperAutoHeal
              \/ HealthTick
SpecHealth == Init /\ [][NextHealth]_vars

\* A started monitor watching a stabilizer that is fed samples, and a chain
\* that gets overwritten
NextWatch == Start \/ MonitorIterationAny \/ TamperAutoHeal \/ FeedCvarAny \/ HealthTick
SpecWatch == Init /\ [][NextWatch]_vars

\* Callers of report_event
NextEvents == ReportEventAny \/ Tick
SpecEvents == Init /\ [][NextEvents]_vars

(***************************************************************************)
(* Claims about the long-running tasks and the monitor                     *)
(***************************************************************************)
\* shutdown was requested: stop() cleared the running flag and no start()
\* followed, or the kill-switch was activated
ShutdownRequested == stop_requested \/ ~armed

\* the step is one more round of a long-running task: a rotation by the
\* rotation loop, a health check by the monitor loop
LoopRound ==
    \/ result'.op = "_rotation_loop" /\ rotation_count' > rotation_count
    \/ health_checks' > health_checks

\* C25: every long-running task (the key rotation loop, the monitor loop)
\* observes a shutdown signal and terminates within one loop period after
\* shutdown is requested: once it is requested, a task whose sleep ends
\* returns and does no further round.
C25_TasksStopAfterShutdown == [][ShutdownRequested => ~LoopRound]_vars

\* the step is a stop() that found the monitor running
Stopped == result'.op = "stop" /\ running /\ ~running'

\* C26: across any sequence of start and stop calls at most one monitor
\* worker is alive at any time: start while running creates no second
\* worker, and when stop returns the worker has terminated and one shutdown
\* entry has been appended to the chain.
C26_AtMostOneWorker ==
    [][/\ Cardinality(AliveWorkers') <= 1
       /\ (result'.op = "start" /\ running) => worker' = worker
       /\ Stopped =>
             /\ AliveWorkers' = {}
             /\ Len(chain'["ah"]) = Len(chain["ah"]) + 1
             /\ chain'["ah"][Len(chain'["ah"])].event = "UnifiedMonitor stopped"]_vars

\* C27: when a monitor iteration finds the AutoHeal status different from
\* ACTIVE the monitor stops: from then on it performs no further health
\* check and makes no further report or chain append.
C27_MonitorStopsWhenKilled ==
    [][found_killed =>
         /\ health_checks' = health_checks
         /\ result'.op \in {"_check_system_health", "_monitor_loop"} => chain' = chain]_vars

\* the step is a monitor iteration
Iteration == health_checks' = health_checks + 1

\* the reports of the given type the step appended to the kill-switch's chain
Reports(ty) ==
    Cardinality({i \in Len(chain["ks"]) + 1 .. Len(chain'["ks"]) :
                    chain'["ks"][i].event = "Suspicious: " \o ty})

\* the reports of the given type that are within the window after the step
ReportsInWindowAfter(ty) ==
    Cardinality({i \in 1..Len(chain'["ks"]) :
                    /\ chain'["ks"][i].event = "Suspicious: " \o ty
                    /\ now' - chain'["ks"][i].timestamp < window})

\* C28: on every monitor iteration in which AutoHeal is ACTIVE and the chain
\* integrity check fails the monitor reports chain_integrity_failure to the
\* kill-switch exactly once, and it makes no such report when the check
\* passes; threshold failing iterations within the window trip the
\* kill-switch.
C28_ChainFailureReportedOnce ==
    [][(Iteration /\ armed) =>
         /\ Reports("chain_integrity_failure") =
                IF verify_integrity(digests, chain["ah"]) THEN 0 ELSE 1
         /\ ReportsInWindowAfter("chain_integrity_failure") >= threshold => ~armed']_vars

\* three failing iterations tripped the kill-switch
C28_Witness ==
    /\ result.op = "_check_system_health"
    /\ result.out = "SystemExit"
    /\ ~armed
    /\ Cardinality({i \in 1..Len(chain["ks"]) :
                       chain["ks"][i].event = "Suspicious: chain_integrity_failure"})
          = threshold

\* C29: on every monitor iteration (with AutoHeal ACTIVE) the monitor
\* reports high_cvar to the kill-switch if and only if the stabilizer's
\* current cvar exceeds 0.15; a cvar that stays above 0.15 for threshold
\* iterations inside the window activates the kill-switch.
C29_HighCvarReportedIffAboveLimit ==
    [][(Iteration /\ armed) =>
         /\ Reports("high_cvar") = (IF state.cvar > CVAR_HIGH THEN 1 ELSE 0)
         /\ ReportsInWindowAfter("high_cvar") >= threshold => ~armed']_vars

\* the step is a report_event call
EventReported == result'.op = "report_event" /\ chain' # chain

\* C30: report_event forwards an event to the kill-switch if and only if its
\* type is in the suspicious-type set; every event, suspicious or not, is
\* appended to the AutoHeal chain and increments total_events by one, and
\* security_events counts exactly the forwarded ones.
C30_ReportEventCounts ==
    [][EventReported =>
         LET forwarded == Reports(result'.type)
         IN  /\ forwarded = (IF result'.type \in suspicious_types THEN 1 ELSE 0)
             /\ Len(chain'["ah"]) = Len(chain["ah"]) + 1
             /\ chain'["ah"][Len(chain'["ah"])].event = "Event: " \o result'.type
             /\ total_events' = total_events + 1
             /\ security_events' = security_events + forwarded]_vars

(***************************************************************************)
(* _recalibrate and _relax statement by statement.  The stabilizer holds   *)
(* no lock: the thread that feeds update_cvar or calls try_relax and the   *)
(* monitor worker, which reads stabilizer.state in its health check, run   *)
(* as the scheduler interleaves them.                                      *)
(***************************************************************************)
AtomicSteps == {6}

transition_frame ==
    /\ UNCHANGED now
    /\ core_unchanged /\ gate_unchanged

\* update_cvar up to line 127: the sample is recorded, state.cvar is set and
\* _should_recalibrate has answered; on True the caller is inside
\* _recalibrate with its locals computed (lines 169-176)
BeginUpdate(cvar) ==
    LET R == update_cvar(state, cvar_history, now, cvar)
    IN  /\ stab.pc = "idle"
        /\ Len(cvars_since(cvar_history, now - history_window)) < MaxHistory
        /\ cvar \in feeds_after(state.cvar)
        /\ ~float_lt(cvar, CVaR_lo)
               => Len(not_low(cvars_since(cvar_history, now - history_window))) < MaxRisky
        /\ state' = [state EXCEPT !.cvar = cvar]
        /\ cvar_history' = R.cvar_history
        /\ pushed' = [times |-> last_pushes(pushed.times, now),
                      not_low |-> IF ~float_lt(cvar, CVaR_lo) THEN now ELSE pushed.not_low]
        /\ IF R.out = "True"
           THEN /\ stab' = [pc |-> "psi", old |-> state',
                            new_psi |-> R.state.psi_target,
                            new_price |-> R.state.price_multiplier]
                /\ UNCHANGED result
           ELSE /\ result' = [op |-> "update_cvar", out |-> "False"]
                /\ UNCHANGED stab
        /\ transition_frame

\* line 178: self.state.psi_target = new_psi
RecalPsi ==
    /\ stab.pc = "psi"
    /\ state' = [state EXCEPT !.psi_target = stab.new_psi]
    /\ stab' = [stab EXCEPT !.pc = "price"]
    /\ UNCHANGED <<cvar_history, pushed, result>>
    /\ transition_frame

\* line 179: self.state.price_multiplier = new_price
RecalPrice ==
    /\ stab.pc = "price"
    /\ state' = [state EXCEPT !.price_multiplier = stab.new_price]
    /\ stab' = [stab EXCEPT !.pc = "stamp"]
    /\ UNCHANGED <<cvar_history, pushed, result>>
    /\ transition_frame

\* line 180: self.state.last_recalibration = datetime.utcnow()
RecalStamp ==
    /\ stab.pc = "stamp"
    /\ state' = [state EXCEPT !.last_recalibration = now]
    /\ stab' = [stab EXCEPT !.pc = "count"]
    /\ UNCHANGED <<cvar_history, pushed, result>>
    /\ transition_frame

\* line 181: self.state.recalibration_count += 1
RecalCount ==
    /\ stab.pc = "count"
    /\ state' = [state EXCEPT !.recalibration_count = @ + 1]
    /\ stab' = [stab EXCEPT !.pc = "mode"]
    /\ UNCHANGED <<cvar_history, pushed, result>>
    /\ transition_frame

\* line 182: self.state.attack_mode = True; then update_cvar returns True
RecalMode ==
    /\ stab.pc = "mode"
    /\ state' = [state EXCEPT !.attack_mode = TRUE]
    /\ stab' = NotInTransition
    /\ result' = [op |-> "update_cvar", out |-> "True"]
    /\ UNCHANGED <<cvar_history, pushed>>
    /\ transition_frame

\* try_relax up to line 232: on True the caller is inside _relax with its
\* locals computed (lines 242-249)
BeginRelax ==
    LET R == try_relax(state, cvar_history, now)
    IN  /\ stab.pc = "idle"
        /\ IF R.out = "True"
           THEN /\ stab' = [pc |-> "relax_psi", old |-> state,
                            new_psi |-> R.state.psi_target,
                            new_price |-> R.state.price_multiplier]
                /\ UNCHANGED result
           ELSE /\ result' = [op |-> "try_relax", out |-> "False"]
                /\ UNCHANGED stab
        /\ UNCHANGED <<state, cvar_history, pushed>>
        /\ transition_frame

\* line 252: self.state.psi_target = new_psi
RelaxPsi ==
    /\ stab.pc = "relax_psi"
    /\ state' = [state EXCEPT !.psi_target = stab.new_psi]
    /\ stab' = [stab EXCEPT !.pc = "relax_price"]
    /\ UNCHANGED <<cvar_history, pushed, result>>
    /\ transition_frame

\* line 253: self.state.price_multiplier = new_price
RelaxPrice ==
    /\ stab.pc = "relax_price"
    /\ state' = [state EXCEPT !.price_multiplier = stab.new_price]
    /\ stab' = [stab EXCEPT !.pc = "relax_mode"]
    /\ UNCHANGED <<cvar_history, pushed, result>>
    /\ transition_frame

\* lines 256-257: attack mode is left when psi and price are back to normal;
\* then try_relax returns True
RelaxMode ==
    /\ stab.pc = "relax_mode"
    /\ state' = [state EXCEPT !.attack_mode =
                     IF stab.new_psi <= PSI_DEFAULT /\ frac_le(stab.new_price, One)
                     THEN FALSE ELSE @]
    /\ stab' = NotInTransition
    /\ result' = [op |-> "try_relax", out |-> "True"]
    /\ UNCHANGED <<cvar_history, pushed>>
    /\ transition_frame

\* what the monitor worker's health check reads of the stabilizer
\* (unified_monitor.py lines 140-154), taken at one instant
view(st) == [psi_target |-> st.psi_target, price_multiplier |-> st.price_multiplier,
             recalibration_count |-> st.recalibration_count,
             attack_mode |-> st.attack_mode]

ReadState ==
    /\ result' = [op |-> "stabilizer.state", read |-> view(state)]
    /\ stabilizer_unchanged
    /\ transition_frame

AtomicTick ==
    /\ \E d \in AtomicSteps : now + d <= MaxStabTime /\ now' = now + d
    /\ UNCHANGED <<state, cvar_history, pushed, stab, result>>
    /\ core_unchanged /\ gate_unchanged

BeginUpdateAny == \E cvar \in CvarSamples : BeginUpdate(cvar)

NextAtomic == BeginUpdateAny \/ RecalPsi \/ RecalPrice \/ RecalStamp \/ RecalCount
              \/ RecalMode \/ BeginRelax \/ RelaxPsi \/ RelaxPrice \/ RelaxMode
              \/ ReadState \/ AtomicTick
SpecAtomic == Init /\ [][NextAtomic]_vars

\* the state on the far side of the transition the caller is inside
after_transition ==
    IF stab.pc \in {"psi", "price", "stamp", "count", "mode"}
    THEN recalibrate(stab.old, now)
    ELSE relax(stab.old)

\* the step is a read of the stabilizer's state by another thread
ReadsState == result'.op = "stabilizer.state" /\ result' # result

\* C31: a Stabilizer transition is atomic to a reader in another thread:
\* what it reads of psi_target, price_multiplier, recalibration_count and
\* attack_mode while update_cvar or try_relax runs is the state before the
\* recalibration or relaxation, or the state after it, never a mix.
C31_TransitionAtomicToReaders ==
    [][(ReadsState /\ stab.pc # "idle")
          => result'.read \in {view(stab.old), view(after_transition)}]_vars

(***************************************************************************)
(* A caller whose risk estimate is at times undefined: it feeds            *)
(* float('nan') and samples above the threshold.                           *)
(***************************************************************************)
NanSamples == {NaN, 200}

FeedAny == \E cvar \in NanSamples : Feed(cvar)

NextNan == FeedAny \/ TryRelax \/ StabTick
SpecNan == Init /\ [][NextNan]_vars

\* the history with every undefined sample read as one just above the threshold
as_high(h) == [i \in 1..Len(h) |->
                  IF h[i].cvar = NaN THEN [h[i] EXCEPT !.cvar = CVAR_THRESHOLD + 1] ELSE h[i]]

\* C32: an undefined (NaN) CVaR counts toward the attack confirmation like
\* a sample just above CVaR_hi: update_cvar recalibrates exactly when it
\* would with every NaN in its history replaced by such a sample, so three
\* NaN samples within the confirmation window trigger a recalibration.
C32_NanCountsAsAboveThreshold ==
    [][FeedAny => result'.out = (IF should_recalibrate(as_high(cvar_history'), now)
                                 THEN "True" ELSE "False")]_vars

(***************************************************************************)
(* The gate's windows at their limits: the gate after its callers made so  *)
(* many record_action and record_validation calls that the next burst of   *)
(* calls fills a window and cuts it.                                       *)
(***************************************************************************)
ActionFills == {0, 2 * WINDOW_SIZE - MaxBurst + 1}
ValidationFills == {0, WINDOW_SIZE - MaxBurst + 1}

\* n record_action calls made at construction time, every third one of low
\* confidence; no window is cut before call 2 * WINDOW_SIZE + 1
recorded_mixed(n) ==
    [i \in 1..n |-> [timestamp |-> 0, type |-> "deploy",
                     confidence |-> IF i % 3 = 0 THEN 100 ELSE 1000]]

\* n record_validation calls, every other one valid; no window is cut
\* before call WINDOW_SIZE + 1
validated(n) == [i \in 1..n |-> i % 2 = 0]

InitWindow ==
    /\ InitOthers
    /\ \E a \in ActionFills, v \in ValidationFills :
          /\ action_history = recorded_mixed(a)
          /\ validation_results = validated(v)
          /\ calls = [record_action |-> a, record_validation |-> v]

\* gate.record_action("deploy", confidence) in a burst
BurstAction(confidence) ==
    /\ \E a \in ActionFills :
          a <= calls.record_action /\ calls.record_action < a + MaxBurst
    /\ action_history' = record_action(action_history, now, "deploy", confidence)
    /\ calls' = [calls EXCEPT !.record_action = @ + 1]
    /\ result' = [op |-> "record_action", out |-> "None"]
    /\ UNCHANGED <<now, error_timestamps, validation_results, idempotent_count, total_webhooks>>
    /\ others_unchanged

\* gate.record_validation(is_valid) in a burst
BurstValidation(is_valid) ==
    /\ \E v \in ValidationFills :
          v <= calls.record_validation /\ calls.record_validation < v + MaxBurst
    /\ validation_results' = record_validation(validation_results, is_valid)
    /\ calls' = [calls EXCEPT !.record_validation = @ + 1]
    /\ result' = [op |-> "record_validation", out |-> "None"]
    /\ UNCHANGED <<now, action_history, error_timestamps, idempotent_count, total_webhooks>>
    /\ others_unchanged

BurstActionAny == \E confidence \in Confidences : BurstAction(confidence)
BurstValidationAny == \E is_valid \in BOOLEAN : BurstValidation(is_valid)

NextWindow == BurstActionAny \/ BurstValidationAny \/ RecordWebhookAny
SpecWindow == InitWindow /\ [][NextWindow]_vars

min(a, b) == IF a < b THEN a ELSE b
suffix(s, k) == SubSeq(s, Len(s) - k + 1, Len(s))

\* the window holds the k most recent actions: the one just recorded, after
\* the k - 1 that were the most recent before it
HoldsMostRecent(k) ==
    \E confidence \in Confidences :
        suffix(action_history', k) =
            suffix(Append(action_history, [timestamp |-> now, type |-> "deploy",
                                           confidence |-> confidence]), k)

\* C33: after any sequence of record_action, record_validation and
\* record_webhook calls the action window holds at most 2 * W = 200 entries
\* and contains the most recent min(n, W) of the n actions recorded, the
\* validation window holds at most W = 100 results, neither webhook counter
\* decreases, and idempotent_count <= total_webhooks.
C33_WindowsBoundedAndRecent ==
    [][/\ Len(action_history') <= 2 * WINDOW_SIZE
       /\ Len(action_history') >= min(calls'.record_action, WINDOW_SIZE)
       /\ action_history' # action_history
             => HoldsMostRecent(min(calls'.record_action, WINDOW_SIZE))
       /\ Len(validation_results') <= WINDOW_SIZE
       /\ total_webhooks' >= total_webhooks
       /\ idempotent_count' >= idempotent_count
       /\ idempotent_count' <= total_webhooks']_vars

\* call 201 has cut the action window to the last W entries and call 101 has
\* cut the validation window, with webhooks of both kinds recorded
C33_Witness ==
    /\ calls.record_action = 2 * WINDOW_SIZE + 1
    /\ Len(action_history) = WINDOW_SIZE
    /\ calls.record_validation = WINDOW_SIZE + 1
    /\ Len(validation_results) = WINDOW_SIZE
    /\ total_webhooks = 2 /\ idempotent_count = 1

(***************************************************************************)
(* The monitor's status query                                              *)
(***************************************************************************)
\* the names an OmegaGate object answers to: its class constants, the fields
\* __init__ sets, its methods
OmegaGateAttributes ==
    {"W_CVAR", "W_BETA", "W_ERR", "W_IDEM", "OMEGA_THRESHOLD", "ALPHA", "WINDOW_SIZE",
     "action_history", "error_timestamps", "validation_results", "idempotent_count",
     "total_webhooks", "_compute_cvar", "_compute_beta", "_compute_err_5m",
     "_compute_idem", "compute_omega", "check_gate", "record_action", "record_error",
     "record_validation", "record_webhook", "get_status_report"}

\* get_unified_status, line 259: self.omega_gate.omega_threshold
threshold_attribute == "omega_threshold"

\* UnifiedMonitor.get_unified_status() at time t; the monitor's OmegaGate()
\* was constructed, so omega_gate is not None
get_unified_status(M, r, a, K, S, st, t) ==
    LET ah_status == get_status(a, K, S, t)
    IN  IF threshold_attribute \notin OmegaGateAttributes
        THEN [out |-> "AttributeError", sections |-> {}]
        ELSE [out |-> "ok",
              sections |-> {"monitor", "autoheal", "stabilizer", "omega_gate"},
              monitor |-> [running |-> r, uptime_seconds |-> t,
                           total_events |-> M.total_events,
                           security_events |-> M.security_events,
                           recalibrations |-> M.recalibrations],
              autoheal |-> [status |-> ah_status.status,
                            key_rotations |-> ah_status.rotation_count,
                            key_age |-> ah_status.current_key_age,
                            merkle_root |-> ah_status.merkle_root,
                            chain_length |-> ah_status.chain_length,
                            chain_integrity |-> ah_status.chain_integrity],
              stabilizer |-> [mode |-> IF st.attack_mode THEN "ATTACK" ELSE "NORMAL",
                              psi_target |-> st.psi_target,
                              cvar |-> st.cvar,
                              price_multiplier |-> st.price_multiplier,
                              recalibration_count |-> st.recalibration_count],
              omega_gate |-> [available |-> TRUE, threshold |-> OMEGA_THRESHOLD]]

\* monitor.get_unified_status()
GetUnifiedStatus ==
    LET R == get_unified_status(MonitorStats, running, armed, KeyState, LogState, state, now)
    IN  /\ result' = [op |-> "get_unified_status", out |-> R.out, sections |-> R.sections]
        /\ UNCHANGED <<now, chain, current_root, disk, digests>>
        /\ monitor_unchanged /\ kill_unchanged /\ monitor_frame

NextStatus == Start \/ Stop \/ MonitorIterationAny \/ MonitorExitAny \/ GetUnifiedStatus
              \/ HealthTick
SpecStatus == Init /\ [][NextStatus]_vars

\* C34: the monitor's status query returns a complete snapshot, with its
\* monitor, autoheal, stabilizer and omega_gate sections, in every reachable
\* state of a constructed monitor, started or not, and never fails with an
\* error.
C34_StatusQueryReturnsSnapshot ==
    result.op = "get_unified_status"
        => /\ result.out = "ok"
           /\ result.sections = {"monitor", "autoheal", "stabilizer", "omega_gate"}

(***************************************************************************)
(* Claims about the numbering of rotations                                 *)
(***************************************************************************)
\* no thread is inside _rotate_key
NoRotationInFlight == \A r \in Rotators : rot[r].pc \in {"idle", "return"}

\* C35: for any interleaving of the rotation loop with rotations forced by
\* callers, the key manager's chain entries are "Key rotation #1", "#2",
\* "#3", ... in this order, none repeated or skipped, and once no rotation
\* is in flight rotation_count equals the number of rotations performed.
C35_RotationsNumberedInOrder ==
    /\ \A i \in 1..Len(chain["km"]) :
          /\ chain["km"][i].event = "Key rotation #" \o ToString(i)
          /\ chain["km"][i].metadata.rotation_count = i
    /\ NoRotationInFlight => rotation_count = Len(chain["km"])

(***************************************************************************)
(* Claims about what try_relax leaves alone                                *)
(***************************************************************************)
\* try_relax's stability condition at the time of the call: at least 10
\* samples in the last relax_window, all below CVaR_lo
Stable ==
    LET recent_cvars == cvars_since(cvar_history, now - relax_window)
    IN  /\ Len(recent_cvars) >= 10
        /\ all_below(recent_cvars, CVaR_lo)

\* C36: try_relax in NORMAL mode, or when its stability condition is not
\* met, returns false and leaves the whole Stabilizer state unchanged; no
\* relaxation changes recalibration_count or last_recalibration; and
\* recalibration_count only grows, by exactly 1 on each recalibration (an
\* update_cvar that returns true) and not otherwise.
C36_RelaxFrameAndCountMonotone ==
    [][/\ (TryRelax /\ (~state.attack_mode \/ ~Stable))
             => /\ result'.out = "False"
                /\ state' = state
                /\ cvar_history' = cvar_history
       /\ TryRelax => /\ state'.recalibration_count = state.recalibration_count
                      /\ state'.last_recalibration = state.last_recalibration
                      /\ state'.cvar = state.cvar
       /\ state'.recalibration_count =
              IF result'.op = "update_cvar" /\ result'.out = "True" /\ UpdateCvarAny
              THEN state.recalibration_count + 1
              ELSE state.recalibration_count]_vars

\* a relaxation after a recalibration: the count of recalibrations is kept
C36_Witness ==
    /\ result.op = "try_relax" /\ result.out = "True"
    /\ state.recalibration_count >= 1
    /\ state.last_recalibration < now

(***************************************************************************)
(* A logger that is constructed again on its file: the process restarts,   *)
(* or a second MerkleChainLogger(log_file) is made as the tests do.        *)
(***************************************************************************)
\* logger = MerkleChainLogger(log_file) on the stand-alone logger's file
Reload ==
    /\ set_logs(construct_logger(LogState, "log"))
    /\ result' = [op |-> "MerkleChainLogger", out |-> "ok"]
    /\ stabilizer_unchanged /\ gate_unchanged
    /\ cipher_unchanged /\ rotation_unchanged /\ monitor_unchanged
    /\ UNCHANGED <<now, tampered>>
    /\ keys_unchanged /\ kill_unchanged /\ threads_unchanged

\* an append whose write fails: its entry is lost at the next load
AppendLost ==
    /\ Len(digests) < Len(InitAutoHeal.digests) + MaxChain + MaxLost
    /\ AppendFails

\* all within one tick of the clock: equal timestamps make equal entries possible
NextReload == AppendOk \/ AppendLost \/ Reload
SpecReload == Init /\ [][NextReload]_vars

\* current_root is the root of the last entry, the genesis root without one
RootIsLast(l) ==
    current_root[l] = IF chain[l] = <<>> THEN Genesis
                      ELSE chain[l][Len(chain[l])].merkle_root

\* the roots the logger had before: the genesis root and its entries' roots
EarlierRoots(l) == {Genesis} \cup {chain[l][i].merkle_root : i \in 1..Len(chain[l])}

\* the step is an append that returned
Returned == result'.op = "append" /\ result'.out = "ok" /\ chain' # chain

\* C37: in every reachable state of a MerkleChainLogger, after its load and
\* after each append, current_root is the merkle_root of the last chain
\* entry, or the genesis root when the chain is empty; and each append
\* returns the new current_root, which differs from every earlier root.
C37_RootIsLastEntrysRoot ==
    /\ [](\A l \in Loggers : RootIsLast(l))
    /\ [][Returned => /\ result'.root = current_root'["log"]
                      /\ result'.root \notin EarlierRoots("log")]_vars

\* an append on a logger that was loaded from a file with entries, some of
\* its earlier appends not having reached the file
C37_Witness ==
    /\ result.op = "append" /\ result.out = "ok"
    /\ Len(chain["log"]) >= 2
    /\ Len(disk["tmp.log"]) = Len(chain["log"])
    /\ Len(digests) > Len(chain["log"]) + Len(chain["ah"]) + 1

(***************************************************************************)
(* Claims about the log file of one LuaAutoHeal process                    *)
(***************************************************************************)
\* MerkleChainLogger(): a fresh logger on the default path, after its load
fresh_logger(S) ==
    [chain |-> load_chain(S.disk[log_file["ah"]]),
     current_root |-> loaded_root(S.disk[log_file["ah"]])]

\* C38: the chain log on disk written by one LuaAutoHeal process, whose key
\* manager, kill-switch and facade each append through a logger of their
\* own to the same default path, is a valid chain: re-read in order by a
\* fresh MerkleChainLogger, every line's prev_root is the merkle_root of the
\* line before it and verify_integrity returns true.
C38_LogFileIsAChain ==
    /\ Linked(fresh_logger(LogState).chain)
    /\ verify_integrity(digests, fresh_logger(LogState).chain)

(***************************************************************************)
(* Claims about the running flag                                           *)
(***************************************************************************)
\* C39: whenever the monitor's running flag is true after start has
\* returned, a live monitor worker exists; a kill-switch activation or an
\* error raised inside a monitor iteration never leaves the monitor with
\* running = true and no worker.
C39_RunningMeansLiveWorker == running => AliveWorkers # {}

====
